---- MODULE Spec2Model ----
(***************************************************************************)
(* State-machine model of plugin-x402: the circuit breaker, the server     *)
(* paywall with its facilitator client, the client interceptor             *)
(* (fetchWithPayment) with the policy engine and the in-memory ledger.     *)
(***************************************************************************)
EXTENDS Integers, Sequences, FiniteSets, TLC

VARIABLES
    now,        \* Date.now(), in ms
    cb,         \* the CircuitBreaker instance's private fields
    lastCall,   \* the last CircuitBreaker method call and what it returned
    srvCfg,     \* what createPaywallMiddleware was called with
    srvLedger,  \* the records of the storage given to the paywall
    reqs,       \* the paywall's requests in flight: position, inputs, response, events
    policy,     \* the PolicyEngine's PaymentPolicy
    ledger,     \* the records of the client's storage
    calls,      \* the fetchWithPayment calls in flight: position, locals, events
    started,    \* the number of fetchWithPayment calls made so far
    copy,       \* the object last returned by PolicyEngine.getPolicy, in its caller's hands
    evals,      \* the PolicyEngine evaluations in flight: position, locals, result
    store,      \* the callers of the client's storage: writes in flight, objects they hold
    tables,     \* the x402_payments tables of the SQLite and PostgreSQL storages
    trace,      \* the CircuitBreaker calls made by concurrent requests, in order
    lookup      \* what the last call of a network-registry function returned

breakerVars == <<cb, lastCall>>
serverVars == <<srvCfg, srvLedger, reqs>>
clientVars == <<policy, ledger, calls, started>>
engineVars == <<copy, evals>>
storageVars == <<store, tables>>
observerVars == <<trace, lookup>>
vars == <<now, cb, lastCall, srvCfg, srvLedger, reqs, policy, ledger, calls, started,
          copy, evals, store, tables, trace, lookup>>

(***************************************************************************)
(* Bounds of the model                                                     *)
(***************************************************************************)
\* Date.now() advances in steps of OneMinuteMs \div TicksPerMinute.
TicksPerMinute == 3
\* The clock stops after MaxTicks steps.
MaxTicks == 4
\* recordSuccess is not called once the timestamp list holds this many entries.
MaxTimestamps == 4
\* The configuration the breaker is constructed with (CircuitBreakerConfig).
CfgMaxPaymentsPerMinute == 3
CfgAnomalyMultiplier == 2
CfgRecentWindowSize == 3
\* The paywall serves this many requests, which may overlap.
MaxRequests == 1
\* fetchWithPayment is called this many times, one call after the other.
MaxCalls == 1
\* Nothing is pushed to an allow-list or block-list that holds this many entries.
MaxListLen == 2
\* The caller of getPolicy writes to the returned object at most this often.
MaxCopyWrites == 1
\* storage.recordPayment is not called on a ledger that holds this many records.
MaxRecords == 2
\* This many callers have a recordPayment call in flight at once.
MaxWriters == 2
\* This many callers share one breaker, one policy engine and one ledger, and
\* each may have a fetchWithPayment call in flight.
MaxFetchers == 2
\* The callers that share them make this many calls between them.
MaxSharedCalls == 4

(***************************************************************************)
(* Program constants                                                       *)
(***************************************************************************)
OneMinuteMs == 60000
DefaultCooldownMs == 60000
MinAnomalySamples == 3

TickMs == OneMinuteMs \div TicksPerMinute
Amounts == {0, 1, 5}

RECURSIVE SumSeq(_)
SumSeq(s) == IF s = <<>> THEN 0 ELSE Head(s) + SumSeq(Tail(s))

(***************************************************************************)
(* CircuitBreaker                                                          *)
(***************************************************************************)
BreakerConfig ==
    [maxPaymentsPerMinute |-> CfgMaxPaymentsPerMinute,
     anomalyMultiplier    |-> CfgAnomalyMultiplier,
     cooldownMs           |-> DefaultCooldownMs,
     recentWindowSize     |-> CfgRecentWindowSize]

NewBreaker ==
    [state            |-> "closed",
     recentTimestamps |-> <<>>,
     recentAmounts    |-> <<>>,
     trippedAt        |-> 0,
     lastTripReason   |-> ""]

ReasonOpen    == "Circuit breaker is OPEN"
ReasonRate    == "Rate exceeded"
ReasonAnomaly == "Anomaly detected"
ReasonProbe   == "Probe payment failed in half-open state"

tripKeepingTime(b, reason, t) ==
    [b EXCEPT !.state = "open", !.lastTripReason = reason]
trip(b, reason, t) ==
    [b EXCEPT !.state = "open", !.trippedAt = t, !.lastTripReason = reason]

CooldownElapsedStrict(b, t) == t - b.trippedAt > BreakerConfig.cooldownMs
CooldownElapsed(b, t) == t - b.trippedAt >= BreakerConfig.cooldownMs

RecentOrMinuteOld(ts, t) == SelectSeq(ts, LAMBDA x : x >= t - OneMinuteMs)
RecentOnly(ts, t) == SelectSeq(ts, LAMBDA x : x > t - OneMinuteMs)

RateExceeded(ts) == Len(ts) >= BreakerConfig.maxPaymentsPerMinute

Average(amts) == SumSeq(amts) \div Len(amts)

IsAnomalyOfAnyMean(amts, amount) ==
    /\ Len(amts) >= MinAnomalySamples
    /\ amount > Average(amts) * BreakerConfig.anomalyMultiplier
IsAnomaly(amts, amount) ==
    /\ Len(amts) >= MinAnomalySamples
    /\ Average(amts) > 0
    /\ amount > Average(amts) * BreakerConfig.anomalyMultiplier

\* The rate guard and the anomaly guard of check, applied to breaker b.
Guards(b, amount, t) ==
    LET b2 == [b EXCEPT !.recentTimestamps = RecentOnly(b.recentTimestamps, t)]
    IN  IF RateExceeded(b2.recentTimestamps)
        THEN [cb |-> trip(b2, ReasonRate, t), allowed |-> FALSE, reason |-> ReasonRate]
        ELSE IF IsAnomaly(b2.recentAmounts, amount)
        THEN [cb |-> trip(b2, ReasonAnomaly, t), allowed |-> FALSE, reason |-> ReasonAnomaly]
        ELSE [cb |-> b2, allowed |-> TRUE, reason |-> ""]

check(b, amount, t) ==
    IF b.state = "open"
    THEN IF CooldownElapsed(b, t)
         THEN Guards([b EXCEPT !.state = "half-open"], amount, t)
         ELSE [cb |-> b, allowed |-> FALSE, reason |-> ReasonOpen]
    ELSE Guards(b, amount, t)

PushAmountKeepingOldest(amts, amount) ==
    IF Len(amts) >= BreakerConfig.recentWindowSize THEN amts ELSE Append(amts, amount)
PushAmount(amts, amount) ==
    LET pushed == Append(amts, amount)
    IN  IF Len(pushed) > BreakerConfig.recentWindowSize THEN Tail(pushed) ELSE pushed

ClosesOnSuccessAlways(state) == state \in {"half-open", "open"}
ClosesOnSuccess(state) == state = "half-open"

recordSuccess(b, amount, t) ==
    LET b1 == [b EXCEPT !.recentTimestamps = Append(@, t),
                        !.recentAmounts = PushAmount(@, amount)]
    IN  IF ClosesOnSuccess(b.state)
        THEN [b1 EXCEPT !.state = "closed", !.lastTripReason = ""]
        ELSE b1

recordFailure(b, t) ==
    IF b.state = "half-open" THEN trip(b, ReasonProbe, t) ELSE b

resetKeepingTime(b) ==
    [b EXCEPT !.state = "closed", !.lastTripReason = ""]
resetKeepingReason(b) ==
    [b EXCEPT !.state = "closed", !.trippedAt = 0]
reset(b) ==
    [b EXCEPT !.state = "closed", !.lastTripReason = "", !.trippedAt = 0]

\* What the model remembers of a call: the method, the state it found, its result.
NoCall == [op |-> "none", pre |-> "closed", amount |-> 0, allowed |-> TRUE, reason |-> ""]

CallRecord(op, amount, allowed, reason) ==
    [op |-> op, pre |-> cb.state, amount |-> amount, allowed |-> allowed, reason |-> reason]

(***************************************************************************)
(* Strings on the wire.  A string is modelled by how it was produced:      *)
(* JSON.stringify of a value, the base64 form of another string, a decimal *)
(* numeral (a sequence of digit characters), or text that is none of these.*)
(***************************************************************************)
Undefined == "undefined"
Truthy(x) == x # Undefined /\ x # ""

Text(chars) == [enc |-> "text", chars |-> chars]
PlainText == Text("not-json-not-base64!!!")
EmptyString == Text("")
\* undefined where a string of this kind is expected
NoString == [enc |-> "undefined"]
IsPresent(str) == str # NoString /\ str # EmptyString
JsonStringify(value) == [enc |-> "json", val |-> value]
ToBase64(str) == [enc |-> "base64", of |-> str]
\* Buffer.from(s, "base64").toString("utf-8") never throws: text that is not
\* base64 decodes to bytes that are no JSON.
FromBase64(str) == IF str.enc = "base64" THEN str.of ELSE PlainText
JsonParses(str) == str.enc = "json"
JsonParse(str) == str.val

Digits == <<"0", "1", "2", "3", "4", "5", "6", "7", "8", "9">>
DigitChar(d) == Digits[d + 1]
DigitValue(c) == CHOOSE d \in 0..9 : Digits[d + 1] = c

RECURSIVE BigIntToString(_)
BigIntToString(n) ==
    IF n < 10 THEN <<DigitChar(n)>>
    ELSE Append(BigIntToString(n \div 10), DigitChar(n % 10))

(***************************************************************************)
(* NETWORK_REGISTRY                                                        *)
(***************************************************************************)
NetworkKeys == {"base", "base-sepolia", "ethereum", "sepolia"}
NETWORK_REGISTRY(key) ==
    CASE key = "base"         -> [caip2 |-> "eip155:8453",     chainId |-> 8453,
                                  usdcAddress |-> "0x8335", usdcDomainName |-> "USDC"]
      [] key = "base-sepolia" -> [caip2 |-> "eip155:84532",    chainId |-> 84532,
                                  usdcAddress |-> "0x036C", usdcDomainName |-> "USDC"]
      [] key = "ethereum"     -> [caip2 |-> "eip155:1",        chainId |-> 1,
                                  usdcAddress |-> "0xA0b8", usdcDomainName |-> "USD Coin"]
      [] key = "sepolia"      -> [caip2 |-> "eip155:11155111", chainId |-> 11155111,
                                  usdcAddress |-> "0x1c7D", usdcDomainName |-> "USDC"]
resolveNetwork(key) == NETWORK_REGISTRY(key)

(***************************************************************************)
(* Paywall middleware and facilitator client                               *)
(*                                                                         *)
(* config.facilitatorUrl is a well-formed URL, so that new URL() in the    *)
(* facilitator client does not throw, and the onStorageError callback      *)
(* returns normally.                                                       *)
(***************************************************************************)
ReqIds == 1..MaxRequests

\* PaywallRequest.headers as Object.entries lists them; a value is a string,
\* an array of strings or undefined.
StrVal(v) == [kind |-> "string", v |-> v]
ArrVal(vs) == [kind |-> "array", vs |-> vs]
UndefVal == [kind |-> "undefined"]

toLowerCase(name) ==
    CASE name \in {"x-payment", "X-PAYMENT", "X-Payment"} -> "x-payment"
      [] name \in {"accept", "Accept"} -> "accept"
      [] name \in {"payment-required", "Payment-Required"} -> "payment-required"
      [] name \in {"x-402", "X-402"} -> "x-402"
      [] name \in {"x-payment-required", "X-Payment-Required"} -> "x-payment-required"
      [] name \in {"x-upto-session-id", "X-Upto-Session-Id"} -> "x-upto-session-id"
      [] name \in {"x-payment-response", "X-PAYMENT-RESPONSE"} -> "x-payment-response"
      [] name \in {"0xpayee", "0xPayee", "0xPAYEE"} -> "0xpayee"
      [] name \in {"0xother", "0xOther", "0xOTHER"} -> "0xother"
      [] name \in {"0xpayer", "0xPayer", "0xPAYER"} -> "0xpayer"
      [] OTHER -> name

EntryValue(value) ==
    CASE value.kind = "array"  -> IF value.vs = <<>> THEN NoString ELSE Head(value.vs)
      [] value.kind = "string" -> value.v
      [] OTHER                 -> NoString

KeyMatches(key, lowerName) == toLowerCase(key) = lowerName

RECURSIVE FirstMatch(_, _)
FirstMatch(entries, lowerName) ==
    IF entries = <<>> THEN NoString
    ELSE IF KeyMatches(Head(entries).key, lowerName) THEN EntryValue(Head(entries).value)
    ELSE FirstMatch(Tail(entries), lowerName)

getHeader(headers, name) == FirstMatch(headers, toLowerCase(name))

\* The proofs a request may present.
ProofEnvelope == [x402Version |-> 2, accepted |-> "upto", payload |-> "signed"]
ProofBase64 == ToBase64(JsonStringify(ProofEnvelope))
ProofRawJson == JsonStringify(ProofEnvelope)
ProofGarbage == PlainText

Entry(key, value) == [key |-> key, value |-> value]
RequestHeaders ==
    { <<>>,
      <<Entry("accept", StrVal(Text("json")))>>,
      <<Entry("x-payment", StrVal(ProofBase64))>>,
      <<Entry("accept", StrVal(Text("json"))), Entry("X-PAYMENT", StrVal(ProofRawJson))>>,
      <<Entry("X-Payment", ArrVal(<<ProofGarbage, ProofBase64>>))>>,
      <<Entry("X-PAYMENT", ArrVal(<<>>))>>,
      <<Entry("x-payment", UndefVal), Entry("X-PAYMENT", StrVal(ProofBase64))>>,
      <<Entry("x-payment", StrVal(EmptyString))>> }
RequestUrls == {"/data", Undefined}

UrlOrRoot(url) == IF url = Undefined THEN "/" ELSE url

requirementTemplate(cfg) ==
    [scheme            |-> "upto",
     network           |-> resolveNetwork(cfg.network).caip2,
     maxAmountRequired |-> BigIntToString(cfg.amount),
     resource          |-> "",
     payTo             |-> cfg.payTo,
     asset             |-> resolveNetwork(cfg.network).usdcAddress,
     extraName         |-> resolveNetwork(cfg.network).usdcDomainName]

Requirement(cfg, url) == [requirementTemplate(cfg) EXCEPT !.resource = UrlOrRoot(url)]

PaymentRequired(cfg, url) == [x402Version |-> 2, accepts |-> <<Requirement(cfg, url)>>]

Header(name, value) == [name |-> name, value |-> value]

ChallengeHeadersCanonicalOnly(cfg, url) ==
    {Header("Payment-Required", ToBase64(JsonStringify(PaymentRequired(cfg, url))))}
ChallengeHeaders(cfg, url) ==
    LET encoded == ToBase64(JsonStringify(PaymentRequired(cfg, url)))
    IN  {Header("Payment-Required", encoded), Header("x-402", encoded)}

\* The PaywallResponse before the middleware has touched it.
NoResponse == [status |-> 0, error |-> Undefined, reason |-> Undefined, headers |-> {}]

ChallengeResponse(cfg, url) ==
    [status |-> 402, error |-> "Payment Required", reason |-> Undefined,
     headers |-> ChallengeHeaders(cfg, url)]

InvalidResponse(res, verifyResult) ==
    [res EXCEPT !.status = 402,
                !.error = "Payment Invalid",
                !.reason = IF verifyResult.reason = Undefined
                           THEN "Payment verification failed"
                           ELSE verifyResult.reason]

\* buildFacilitatorRequestBody: base64 then JSON, else direct JSON, else it throws.
ProofDecodes(proof) ==
    \/ JsonParses(FromBase64(proof))
    \/ JsonParses(proof)

ReasonFailed   == "Facilitator request failed"
ReasonReturned == "Facilitator returned non-2xx"

\* JSON values of a facilitator answer's flag: true, false, a truthy value
\* that is not true, or the field is absent.
JsonTrue == "true"
JsonFlags == {JsonTrue, "false", "'yes'", Undefined}

\* What the facilitator may do with one POST: the transport fails, it answers
\* with a non-2xx status, with a body that is no JSON, or with a JSON body.
VerifyAnswers ==
    {[kind |-> "reject"], [kind |-> "status"], [kind |-> "badjson"]}
    \cup [kind : {"json"}, isValid : JsonFlags,
          payer : {Undefined, "", "0xPayer"}, invalidReason : {Undefined, "bad signature"}]
SettleAnswers ==
    {[kind |-> "reject"], [kind |-> "status"], [kind |-> "badjson"]}
    \cup [kind : {"json"}, success : JsonFlags,
          transaction : {Undefined, "0xTx"}, errorReason : {Undefined, "reverted"}]

NoVerifyResult == [valid |-> FALSE, payer |-> Undefined, reason |-> Undefined]
NoSettleResult == [success |-> FALSE, txHash |-> Undefined, reason |-> Undefined]

verifyResultOfTruthy(answer) ==
    CASE answer.kind = "json" ->
            [valid |-> answer.isValid \in {JsonTrue, "'yes'"}, payer |-> answer.payer,
             reason |-> answer.invalidReason]
      [] answer.kind = "status" ->
            [valid |-> FALSE, payer |-> Undefined, reason |-> ReasonReturned]
      [] OTHER ->
            [valid |-> FALSE, payer |-> Undefined, reason |-> ReasonFailed]

verifyResultOf(answer) ==
    CASE answer.kind = "json" ->
            [valid |-> answer.isValid = JsonTrue, payer |-> answer.payer,
             reason |-> answer.invalidReason]
      [] answer.kind = "status" ->
            [valid |-> FALSE, payer |-> Undefined, reason |-> ReasonReturned]
      [] OTHER ->
            [valid |-> FALSE, payer |-> Undefined, reason |-> ReasonFailed]

settleResultOf(answer) ==
    CASE answer.kind = "json" ->
            [success |-> answer.success = JsonTrue, txHash |-> answer.transaction,
             reason |-> answer.errorReason]
      [] answer.kind = "status" ->
            [success |-> FALSE, txHash |-> Undefined, reason |-> ReasonReturned]
      [] OTHER ->
            [success |-> FALSE, txHash |-> Undefined, reason |-> ReasonFailed]

IdleRequest ==
    [pc |-> "idle", headers |-> <<>>, url |-> Undefined, log |-> <<>>,
     res |-> NoResponse, createdAt |-> 0, verifyResult |-> NoVerifyResult, settleResult |-> NoSettleResult]

PaywallConfigs ==
    [network : {"base-sepolia"}, amount : {50000}, payTo : {"0xPayee"},
     storage : BOOLEAN, onStorageError : BOOLEAN]

Log(r, events) == [r EXCEPT !.log = @ \o events]

RecordStatusConfirmed(settleResult) == "confirmed"
RecordStatusPending(settleResult) == "pending"
RecordStatus(settleResult) == IF settleResult.success THEN "confirmed" ELSE "pending"

IncomingRecord(cfg, id, r, settleResult) ==
    [id           |-> <<"x402_in", id>>,
     direction    |-> "incoming",
     counterparty |-> r.verifyResult.payer,
     amount       |-> cfg.amount,
     network      |-> resolveNetwork(cfg.network).caip2,
     txHash       |-> IF settleResult.txHash = Undefined THEN "" ELSE settleResult.txHash,
     resource     |-> UrlOrRoot(r.url),
     status       |-> RecordStatus(settleResult),
     createdAt    |-> r.createdAt]

SettlementHeaders(settleResult) ==
    IF Truthy(settleResult.txHash)
    THEN {Header("x-upto-session-id", Text(settleResult.txHash)),
          Header("X-PAYMENT-RESPONSE", Text(settleResult.txHash))}
    ELSE {}

ProceedIfSettled(r) ==
    IF r.settleResult.success
    THEN Log([r EXCEPT !.pc = "done",
                       !.res.headers = @ \cup SettlementHeaders(r.settleResult)],
             <<"next">>)
    ELSE [r EXCEPT !.pc = "done", !.res.status = 402, !.res.error = "Payment Invalid",
                   !.res.reason = "Settlement failed"]

\* The tail of the middleware: the settlement headers, then next().
Proceed(r) ==
    Log([r EXCEPT !.pc = "done",
                  !.res.headers = @ \cup SettlementHeaders(r.settleResult)],
        <<"next">>)

\* The middleware up to its first await: the header lookup and the challenge.
Arrive(cfg, headers, url) ==
    LET r == [IdleRequest EXCEPT !.headers = headers, !.url = url]
        paymentHeader == getHeader(headers, "x-payment")
    IN  IF ~IsPresent(paymentHeader)
        THEN [r EXCEPT !.pc = "done", !.res = ChallengeResponse(cfg, url)]
        ELSE Log([r EXCEPT !.pc = "verify"], <<"verify">>)

PaywallStart(id, headers, url) ==
    /\ reqs[id].pc = "idle"
    /\ reqs' = [reqs EXCEPT ![id] = Arrive(srvCfg, headers, url)]
    /\ UNCHANGED <<srvCfg, srvLedger>>

VerificationFailedIfReason(verifyResult) == verifyResult.reason # Undefined
VerificationNeverFailed(verifyResult) == FALSE
VerificationFailed(verifyResult) == ~verifyResult.valid

\* verifyPaymentWithFacilitator resolves; then either the 402 or the settle call.
VerifyReturn(id, answer) ==
    /\ reqs[id].pc = "verify"
    /\ LET r == reqs[id]
           decodes == ProofDecodes(getHeader(r.headers, "x-payment"))
           verifyResult == IF decodes THEN verifyResultOf(answer)
                           ELSE verifyResultOf([kind |-> "throw"])
           r1 == Log([r EXCEPT !.verifyResult = verifyResult],
                     IF decodes THEN <<"POST /verify">> ELSE <<>>)
       IN  reqs' = [reqs EXCEPT ![id] =
                IF VerificationFailed(verifyResult)
                THEN [r1 EXCEPT !.pc = "done", !.res = InvalidResponse(r1.res, verifyResult)]
                ELSE Log([r1 EXCEPT !.pc = "settle"], <<"settle">>)]
    /\ UNCHANGED <<srvCfg, srvLedger>>

RecordsPayment(cfg, verifyResult) == cfg.storage /\ Truthy(verifyResult.payer)

\* settlePaymentWithFacilitator resolves; then the ledger write or the tail.
SettleReturn(id, answer) ==
    /\ reqs[id].pc = "settle"
    /\ LET r == reqs[id]
           settleResult == settleResultOf(answer)
           r1 == Log([r EXCEPT !.settleResult = settleResult], <<"POST /settle">>)
       IN  reqs' = [reqs EXCEPT ![id] =
                IF RecordsPayment(srvCfg, r.verifyResult)
                THEN Log([r1 EXCEPT !.pc = "record", !.createdAt = now], <<"recordPayment">>)
                ELSE Proceed(r1)]
    /\ UNCHANGED <<srvCfg, srvLedger>>

\* storage.recordPayment resolves or rejects; then the tail.
RecordReturn(id, stored) ==
    /\ reqs[id].pc = "record"
    /\ LET r == reqs[id]
       IN  /\ srvLedger' = IF stored
                           THEN Append(srvLedger, IncomingRecord(srvCfg, id, r, r.settleResult))
                           ELSE srvLedger
           /\ reqs' = [reqs EXCEPT ![id] =
                Proceed(IF stored THEN Log(r, <<"stored">>)
                        ELSE IF srvCfg.onStorageError
                        THEN Log(r, <<"rejected", "onStorageError">>)
                        ELSE Log(r, <<"rejected">>))]
    /\ UNCHANGED srvCfg

(***************************************************************************)
(* MemoryPaymentStorage: the aggregate reads                               *)
(***************************************************************************)
Counted(r, direction, windowMs, t) ==
    /\ r.direction = direction
    /\ (windowMs # 0 => r.createdAt >= t - windowMs)
    /\ r.status \notin {"failed", "refunded"}

RECURSIVE getTotal(_, _, _, _, _)
getTotal(records, direction, windowMs, scope, t) ==
    IF records = <<>> THEN 0
    ELSE (IF /\ Counted(Head(records), direction, windowMs, t)
             /\ (Truthy(scope) => Head(records).counterparty = scope)
          THEN Head(records).amount ELSE 0)
         + getTotal(Tail(records), direction, windowMs, scope, t)

getCount(records, direction, windowMs, t) ==
    Cardinality({i \in 1..Len(records) : Counted(records[i], direction, windowMs, t)})

(***************************************************************************)
(* MemoryPaymentStorage: recordPayment, getRecords, clear, and its callers *)
(***************************************************************************)
\* An optional number is <<>> (undefined) or <<n>>.  The memory storage tests
\* windowMs for truthiness, which takes undefined and 0 alike.
OrZero(optional) == IF optional = <<>> THEN 0 ELSE optional[1]

\* this.records.push({...record, metadata: {...record.metadata}})
PushReplacingLast(records, record) ==
    IF records = <<>> THEN <<record>>
    ELSE Append(SubSeq(records, 1, Len(records) - 1), record)
memoryRecordPayment(records, record) == Append(records, record)

\* A filter of getRecords that is given and truthy.
Filters(filters, name) == name \in DOMAIN filters /\ filters[name] # ""

\* The filters of getRecords, each applied when given.
Matches(r, filters) ==
    /\ Filters(filters, "direction") => r.direction = filters.direction
    /\ Filters(filters, "counterparty")
            => toLowerCase(r.counterparty) = toLowerCase(filters.counterparty)
    /\ Filters(filters, "status") => r.status = filters.status
    /\ Filters(filters, "network") => r.network = filters.network
    /\ "since" \in DOMAIN filters => r.createdAt >= filters.since
    /\ "until" \in DOMAIN filters => r.createdAt <= filters.until

\* Array.prototype.sort by creation time, newest first; it is stable, so records
\* of one time stay in the order they were stored.  Works on positions.
InsertNewestFirst(records, sorted, i) ==
    LET k == Cardinality({j \in 1..Len(sorted) :
                            records[sorted[j]].createdAt >= records[i].createdAt})
    IN  SubSeq(sorted, 1, k) \o <<i>> \o SubSeq(sorted, k + 1, Len(sorted))

RECURSIVE SortNewestFirst(_, _)
SortNewestFirst(records, positions) ==
    IF positions = <<>> THEN <<>>
    ELSE InsertNewestFirst(records,
            SortNewestFirst(records, SubSeq(positions, 1, Len(positions) - 1)),
            positions[Len(positions)])

\* result.slice(offset, offset + limit) for offset, limit >= 0
Slice(s, offset, limit) ==
    SubSeq(s, offset + 1, IF offset + limit < Len(s) THEN offset + limit ELSE Len(s))

\* The positions in this.records of the records getRecords returns, in the
\* order it returns them.
getRecordsAt(records, filters) ==
    LET Keep(i) == Matches(records[i], filters)
        kept    == SelectSeq([i \in 1..Len(records) |-> i], Keep)
        sorted  == SortNewestFirst(records, kept)
        offset  == IF "offset" \in DOMAIN filters THEN filters.offset ELSE 0
        limit   == IF "limit" \in DOMAIN filters THEN filters.limit ELSE Len(sorted)
    IN  Slice(sorted, offset, limit)

\* The array getRecords returns holds the stored objects themselves.
getRecords(records, filters) ==
    LET at == getRecordsAt(records, filters)
    IN  [k \in 1..Len(at) |-> records[at[k]]]

WriterIds == 1..MaxWriters

\* Nobody has called the storage yet.
NoStore ==
    [writers |-> [w \in WriterIds |-> "idle"],
     issued  |-> <<>>,
     passed  |-> <<>>,
     held    |-> {}]

\* The x402_payments tables before the first insert, and whether the last
\* recordPayment threw in each storage.
NoTables ==
    [sqlite   |-> <<>>,
     postgres |-> <<>>,
     threw    |-> [memory |-> FALSE, sqlite |-> FALSE, postgres |-> FALSE]]

StorageIdle ==
    /\ store = NoStore
    /\ tables = NoTables

\* No breaker call observed yet and no registry function called.
NoLookup == [fn |-> "none", arg |-> "", threw |-> FALSE, key |-> "undefined",
             info |-> [caip2 |-> "undefined", chainId |-> 0,
                       usdcAddress |-> "undefined", usdcDomainName |-> "undefined"]]
ObserverIdle ==
    /\ trace = <<>>
    /\ lookup = [resolve |-> NoLookup, reverse |-> NoLookup]

\* recordPayment is called: its body runs to the end at once, since it awaits
\* nothing; the promise it returned is fulfilled later.
RecordPaymentIssue(w, record) ==
    /\ store.writers[w] # "pushed"
    /\ Len(ledger) < MaxRecords
    /\ LET r == [record EXCEPT !.createdAt = now]
       IN  /\ ledger' = memoryRecordPayment(ledger, r)
           /\ store' = [store EXCEPT !.writers[w] = "pushed",
                                     !.issued = Append(@, r),
                                     !.passed = <<r>>]

RecordPaymentResolve(w) ==
    /\ store.writers[w] = "pushed"
    /\ store' = [store EXCEPT !.writers[w] = "done"]
    /\ UNCHANGED ledger

\* clear: this.records = []
ClearCall ==
    /\ ledger' = <<>>
    /\ store' = [store EXCEPT !.issued = <<>>, !.held = {}]

\* getRecords is called and its caller keeps the array it returned.
GetRecordsCall(filters) ==
    /\ store' = [store EXCEPT !.held =
                    {getRecordsAt(ledger, filters)[k] :
                        k \in 1..Len(getRecordsAt(ledger, filters))}]
    /\ UNCHANGED ledger

\* The caller assigns the amount of a record object that getRecords returned.
MutateReturned(i, amount) ==
    /\ i \in store.held
    /\ ledger[i].amount # amount
    /\ ledger' = [ledger EXCEPT ![i].amount = amount]
    /\ UNCHANGED store

\* The caller assigns the amount of the object it passed to recordPayment.
MutatePassed(amount) ==
    /\ store.passed # <<>>
    /\ store.passed[1].amount # amount
    /\ store' = [store EXCEPT !.passed[1].amount = amount]
    /\ UNCHANGED ledger

(***************************************************************************)
(* PolicyEngine.evaluateOutgoing, check by check                           *)
(***************************************************************************)
DenyPerTransaction == "exceeds per-transaction limit"
DenyBlocked        == "is blocked"
DenyNotAllowed     == "is not in the allow list"

Listed(addresses, address) ==
    \E i \in 1..Len(addresses) : toLowerCase(addresses[i]) = toLowerCase(address)

StaticDenialBlockListFirst(limits, request) ==
    IF Len(limits.blockedRecipients) > 0 /\ Listed(limits.blockedRecipients, request.recipient)
    THEN DenyBlocked
    ELSE IF request.amount > limits.maxPerTransaction THEN DenyPerTransaction
    ELSE IF Len(limits.allowedRecipients) > 0 /\ ~Listed(limits.allowedRecipients, request.recipient)
    THEN DenyNotAllowed
    ELSE ""

\* Checks 1 to 3, which read no ledger: the reason of the first that fails, or "".
StaticDenial(limits, request) ==
    IF request.amount > limits.maxPerTransaction THEN DenyPerTransaction
    ELSE IF Len(limits.blockedRecipients) > 0 /\ Listed(limits.blockedRecipients, request.recipient)
    THEN DenyBlocked
    ELSE IF Len(limits.allowedRecipients) > 0 /\ ~Listed(limits.allowedRecipients, request.recipient)
    THEN DenyNotAllowed
    ELSE ""

TotalDenied(limits, currentTotal, amount) == currentTotal + amount > limits.maxTotal
CountDenied(limits, currentCount) == currentCount >= limits.maxTransactions

\* The policy of the integration tests: $1 per transaction, $10 and 100
\* transactions per day, every recipient allowed.
DefaultPolicy ==
    [outgoing |-> [maxPerTransaction |-> 1000000, maxTotal |-> 10000000,
                   windowMs |-> 86400000, maxTransactions |-> 100,
                   allowedRecipients |-> <<>>, blockedRecipients |-> <<>>],
     incoming |-> [minPerTransaction |-> 0,
                   allowedSenders |-> <<>>, blockedSenders |-> <<>>]]

\* Policies that make each of the five checks of evaluateOutgoing bite on a
\* payment of 50000 base units to 0xPayee.
Policies ==
    {DefaultPolicy,
     [DefaultPolicy EXCEPT !.outgoing.maxPerTransaction = 10000],
     [DefaultPolicy EXCEPT !.outgoing.blockedRecipients = <<"0xOTHER", "0xPAYEE">>],
     [DefaultPolicy EXCEPT !.outgoing.allowedRecipients = <<"0xOther">>],
     [DefaultPolicy EXCEPT !.outgoing.allowedRecipients = <<"0xpayee">>,
                           !.outgoing.maxTotal = 60000],
     [DefaultPolicy EXCEPT !.outgoing.maxTotal = 60000, !.outgoing.windowMs = OneMinuteMs],
     [DefaultPolicy EXCEPT !.outgoing.maxTransactions = 1, !.outgoing.windowMs = 0]}

(***************************************************************************)
(* PolicyEngine: evaluations, updatePolicy, getPolicy                      *)
(***************************************************************************)
EvalIds == {1}

DenyTotal            == "exceeding window limit"
DenyCount            == "has reached the limit"
DenyBelowMinimum     == "is below minimum"
DenySenderBlocked    == "Sender is blocked"
DenySenderNotAllowed == "Sender is not in the allow list"

ALLOW == [allowed |-> TRUE, reason |-> ""]
deny(reason) == [allowed |-> FALSE, reason |-> reason]

IncomingDenialBlockListFirst(limits, request) ==
    IF Len(limits.blockedSenders) > 0 /\ Listed(limits.blockedSenders, request.sender)
    THEN DenySenderBlocked
    ELSE IF request.amount < limits.minPerTransaction THEN DenyBelowMinimum
    ELSE IF Len(limits.allowedSenders) > 0 /\ ~Listed(limits.allowedSenders, request.sender)
    THEN DenySenderNotAllowed
    ELSE ""

\* evaluateIncoming: the reason of the first check that fails, or "".
IncomingDenial(limits, request) ==
    IF request.amount < limits.minPerTransaction THEN DenyBelowMinimum
    ELSE IF Len(limits.blockedSenders) > 0 /\ Listed(limits.blockedSenders, request.sender)
    THEN DenySenderBlocked
    ELSE IF Len(limits.allowedSenders) > 0 /\ ~Listed(limits.allowedSenders, request.sender)
    THEN DenySenderNotAllowed
    ELSE ""

IdleEval ==
    [pc |-> "idle", kind |-> "none", request |-> [amount |-> 0], limits |-> [windowMs |-> 0],
     total |-> 0, count |-> 0, result |-> ALLOW]

Done(e, result) == [e EXCEPT !.pc = "done", !.result = result]

\* evaluateOutgoing up to its first await: checks 1 to 3, then the total is read.
EvaluateOutgoingCall(id, request) ==
    /\ evals[id].pc \in {"idle", "done"}
    /\ LET limits == policy.outgoing
           e == [IdleEval EXCEPT !.kind = "outgoing", !.request = request, !.limits = limits]
       IN  evals' = [evals EXCEPT ![id] =
                IF StaticDenial(limits, request) # ""
                THEN Done(e, deny(StaticDenial(limits, request)))
                ELSE [e EXCEPT !.pc = "total",
                               !.total = getTotal(ledger, "outgoing", limits.windowMs,
                                                  Undefined, now)]]
    /\ UNCHANGED <<policy, ledger, copy>>

\* storage.getTotal has resolved: check 4, then the count is read.
EvaluateOutgoingTotal(id) ==
    /\ evals[id].pc = "total"
    /\ LET e == evals[id]
       IN  evals' = [evals EXCEPT ![id] =
                IF TotalDenied(e.limits, e.total, e.request.amount)
                THEN Done(e, deny(DenyTotal))
                ELSE [e EXCEPT !.pc = "count",
                               !.count = getCount(ledger, "outgoing", e.limits.windowMs, now)]]
    /\ UNCHANGED <<policy, ledger, copy>>

\* storage.getCount has resolved: check 5.
EvaluateOutgoingCount(id) ==
    /\ evals[id].pc = "count"
    /\ LET e == evals[id]
       IN  evals' = [evals EXCEPT ![id] =
                IF CountDenied(e.limits, e.count)
                THEN Done(e, deny(DenyCount))
                ELSE Done(e, ALLOW)]
    /\ UNCHANGED <<policy, ledger, copy>>

\* evaluateIncoming has no await: it runs to its result in one piece.
EvaluateIncomingCall(id, request) ==
    /\ evals[id].pc \in {"idle", "done"}
    /\ LET limits == policy.incoming
           e == [IdleEval EXCEPT !.kind = "incoming", !.request = request, !.limits = limits]
       IN  evals' = [evals EXCEPT ![id] =
                IF IncomingDenial(limits, request) # ""
                THEN Done(e, deny(IncomingDenial(limits, request)))
                ELSE Done(e, ALLOW)]
    /\ UNCHANGED <<policy, ledger, copy>>

\* { ...old, ...part }: a field the partial limb supplies takes its value, any
\* other field keeps the old one.
PickOld(part, old, f) == old[f]
Pick(part, old, f) == IF f \in DOMAIN part THEN part[f] ELSE old[f]

MergeOutgoing(old, part) ==
    [maxPerTransaction |-> Pick(part, old, "maxPerTransaction"),
     maxTotal          |-> Pick(part, old, "maxTotal"),
     windowMs          |-> Pick(part, old, "windowMs"),
     maxTransactions   |-> Pick(part, old, "maxTransactions"),
     allowedRecipients |-> Pick(part, old, "allowedRecipients"),
     blockedRecipients |-> Pick(part, old, "blockedRecipients")]

MergeIncoming(old, part) ==
    [minPerTransaction |-> Pick(part, old, "minPerTransaction"),
     allowedSenders    |-> Pick(part, old, "allowedSenders"),
     blockedSenders    |-> Pick(part, old, "blockedSenders")]

updatePolicy(p, partial) ==
    [outgoing |-> IF "outgoing" \in DOMAIN partial
                  THEN MergeOutgoing(p.outgoing, partial.outgoing) ELSE p.outgoing,
     incoming |-> IF "incoming" \in DOMAIN partial
                  THEN MergeIncoming(p.incoming, partial.incoming) ELSE p.incoming]

\* The arrays inside a policy, by limb and field.
ListFields ==
    {<<"outgoing", "allowedRecipients">>, <<"outgoing", "blockedRecipients">>,
     <<"incoming", "allowedSenders">>, <<"incoming", "blockedSenders">>}

\* The arrays a partial brings along: the engine uses these from then on.
Supplied(partial) ==
    {lf \in ListFields : lf[1] \in DOMAIN partial /\ lf[2] \in DOMAIN partial[lf[1]]}

\* The object getPolicy returned, and which of its arrays are the very arrays
\* the engine's policy refers to: the limbs are spread into new objects, the
\* arrays inside them are not copied.
NoCopy == [held |-> FALSE, value |-> DefaultPolicy, shared |-> {}, writes |-> 0]
getPolicy(p) == [held |-> TRUE, value |-> p, shared |-> ListFields, writes |-> 0]

UpdatePolicyCall(partial) ==
    /\ policy' = updatePolicy(policy, partial)
    /\ copy' = [copy EXCEPT !.shared = @ \ Supplied(partial)]
    /\ UNCHANGED <<ledger, evals>>

GetPolicyCall ==
    /\ copy' = getPolicy(policy)
    /\ UNCHANGED <<policy, ledger, evals>>

\* The caller assigns a field of the returned object: a number, or a new array.
CopyAssign(limb, field, value) ==
    /\ copy.held
    /\ copy.writes < MaxCopyWrites
    /\ copy' = [copy EXCEPT !.value[limb][field] = value,
                            !.shared = @ \ {<<limb, field>>},
                            !.writes = @ + 1]
    /\ UNCHANGED <<policy, ledger, evals>>

\* The caller pushes an address to an array of the returned object.
CopyPush(limb, field, address) ==
    /\ copy.held
    /\ copy.writes < MaxCopyWrites
    /\ Len(copy.value[limb][field]) < MaxListLen
    /\ copy' = [copy EXCEPT !.value[limb][field] = Append(@, address),
                            !.writes = @ + 1]
    /\ policy' = IF <<limb, field>> \in copy.shared
                 THEN [policy EXCEPT ![limb][field] = Append(@, address)]
                 ELSE policy
    /\ UNCHANGED <<ledger, evals>>

\* storage.recordPayment by any holder of the storage.
RecordPaymentCall(record) ==
    /\ Len(ledger) < MaxRecords
    /\ ledger' = Append(ledger, [record EXCEPT !.createdAt = now])
    /\ UNCHANGED <<policy, copy, evals>>

(***************************************************************************)
(* fetchWithPayment                                                        *)
(***************************************************************************)
CallIds == {1}
SignerNetworkId == resolveNetwork("base-sepolia").caip2

Rejected == [status |-> -1, headers |-> {}]
Response(status, headers) == [status |-> status, headers |-> headers]
Ok(response) == response.status >= 200 /\ response.status <= 299

\* Headers.get: the name is matched in any letter case; null when absent.
HeadersGet(headers, name) ==
    IF \E h \in headers : toLowerCase(h.name) = toLowerCase(name)
    THEN (CHOOSE h \in headers : toLowerCase(h.name) = toLowerCase(name)).value
    ELSE NoString

\* a ?? b (and not a || b, which would also pass over an empty string)
CoalesceTruthy(a, b) == IF IsPresent(a) THEN a ELSE b
Coalesce(a, b) == IF a # NoString THEN a ELSE b

ChallengeHeaderValue(response) ==
    Coalesce(HeadersGet(response.headers, "payment-required"),
        Coalesce(HeadersGet(response.headers, "x-402"),
                 HeadersGet(response.headers, "x-payment-required")))

NoChallenge == [x402Version |-> 0, acceptsKind |-> "missing", accepts |-> <<>>]

parsePaymentRequired(response) ==
    LET headerValue == ChallengeHeaderValue(response)
    IN  IF ~IsPresent(headerValue) THEN NoChallenge
        ELSE IF JsonParses(FromBase64(headerValue)) THEN JsonParse(FromBase64(headerValue))
        ELSE IF JsonParses(headerValue) THEN JsonParse(headerValue)
        ELSE NoChallenge

\* What the decoded challenge holds under "accepts": a list, nothing, or a value
\* that is no list.
AcceptsKind(challenge) ==
    IF "acceptsKind" \in DOMAIN challenge THEN challenge.acceptsKind ELSE "list"

NoRequirement ==
    [scheme |-> "", network |-> "", maxAmountRequired |-> <<>>, resource |-> "",
     payTo |-> "", asset |-> "", extraName |-> ""]

RECURSIVE FirstOnNetwork(_, _)
FirstOnNetwork(accepts, networkId) ==
    IF accepts = <<>> THEN NoRequirement
    ELSE IF Head(accepts).network = networkId THEN Head(accepts)
    ELSE FirstOnNetwork(Tail(accepts), networkId)

FirstOffered(accepts, signerNetworkId) == Head(accepts)
selectPaymentOption(accepts, signerNetworkId) == FirstOnNetwork(accepts, signerNetworkId)

\* BigInt(string): the value of a decimal numeral (0 for the empty string); any
\* other text makes it throw.
IsNumeral(chars) == \A i \in 1..Len(chars) : \E d \in 0..9 : Digits[d + 1] = chars[i]
RECURSIVE BigInt(_)
BigInt(chars) ==
    IF chars = <<>> THEN 0
    ELSE 10 * BigInt(SubSeq(chars, 1, Len(chars) - 1)) + DigitValue(chars[Len(chars)])

\* signer.buildPaymentHeader when it does not throw.
PaymentHeaderFor(requirement) ==
    ToBase64(JsonStringify(
        [x402Version |-> 2,
         accepted |-> [scheme |-> "upto", network |-> requirement.network,
                       asset |-> requirement.asset,
                       amount |-> requirement.maxAmountRequired,
                       payTo |-> requirement.payTo],
         payload |-> "signed"]))

\* What the retry carries: X-PAYMENT set on the caller's headers (none here).
RetryHeaders(paymentHeader) == <<Entry("X-PAYMENT", StrVal(paymentHeader))>>

SessionIdPrimaryOnly(response) ==
    LET v == HeadersGet(response.headers, "x-upto-session-id")
    IN  IF v = NoString THEN "" ELSE v.chars

SessionId(response) ==
    LET v == Coalesce(HeadersGet(response.headers, "x-upto-session-id"),
                      HeadersGet(response.headers, "X-PAYMENT-RESPONSE"))
    IN  IF v = NoString THEN "" ELSE v.chars

IdleCall ==
    [pc |-> "idle", seq |-> 0, initial |-> Rejected, requirement |-> NoRequirement,
     amount |-> 0, total |-> 0, count |-> 0, signed |-> NoRequirement, paymentHeader |-> NoString,
     retry |-> Rejected, createdAt |-> 0, returned |-> "none", log |-> <<>>]

OutgoingRecord(c, retryResponse) ==
    [id           |-> <<"x402", c.seq>>,
     direction    |-> "outgoing",
     counterparty |-> c.requirement.payTo,
     amount       |-> c.amount,
     network      |-> c.requirement.network,
     txHash       |-> SessionId(retryResponse),
     resource     |-> "https://api.test/data",
     status       |-> IF Ok(retryResponse) THEN "confirmed" ELSE "failed",
     createdAt    |-> c.createdAt]

Return(c, which) == [c EXCEPT !.pc = "returned", !.returned = which]
Throw(c) == [c EXCEPT !.pc = "returned", !.returned = "threw"]

\* A call begins: the initial request is sent.
ClientStart(id) ==
    /\ calls[id].pc \in {"idle", "returned"}
    /\ started < MaxCalls
    /\ started' = started + 1
    /\ calls' = [calls EXCEPT ![id] =
            [IdleCall EXCEPT !.pc = "initial", !.seq = started + 1, !.log = <<"fetch">>]]
    /\ UNCHANGED <<policy, ledger, cb>>

\* The part of evaluateOutgoing that runs before its first await.
PolicyNeverDeniesStatically(limits, request) == FALSE
PolicyDeniesStatically(limits, request) == StaticDenial(limits, request) # ""

\* initialResponse.status !== 402 sends the response straight back.
IsPaymentRequiredOrUnauthorized(response) == response.status \in {401, 402}
IsPaymentRequired(response) == response.status = 402

\* From the initial response to the first ledger read of evaluateOutgoing.
AfterInitialResponse(c, response) ==
    LET c1 == [c EXCEPT !.initial = response]
        challenge == parsePaymentRequired(response)
    IN  IF response = Rejected THEN Throw(c1)
        ELSE IF ~IsPaymentRequired(response) THEN Return(c1, "initial")
        ELSE IF AcceptsKind(challenge) = "missing" THEN Return(c1, "initial")
        ELSE IF AcceptsKind(challenge) # "list" THEN Throw(c1)
        ELSE IF Len(challenge.accepts) = 0 THEN Return(c1, "initial")
        ELSE LET requirement == selectPaymentOption(challenge.accepts, SignerNetworkId)
             IN  IF requirement = NoRequirement THEN Return(c1, "initial")
                 ELSE IF ~IsNumeral(requirement.maxAmountRequired)
                 THEN Throw([c1 EXCEPT !.requirement = requirement])
                 ELSE LET amount == BigInt(requirement.maxAmountRequired)
                          c2 == Log([c1 EXCEPT !.requirement = requirement,
                                               !.amount = amount],
                                    <<"evaluateOutgoing">>)
                      IN  IF PolicyDeniesStatically(policy.outgoing,
                                [amount |-> amount, recipient |-> requirement.payTo])
                          THEN Return(c2, "initial")
                          ELSE Log([c2 EXCEPT !.pc = "total",
                                              !.total = getTotal(ledger, "outgoing",
                                                  policy.outgoing.windowMs, Undefined, now)],
                                   <<"getTotal">>)

ClientInitialResponse(id, response) ==
    /\ calls[id].pc = "initial"
    /\ calls' = [calls EXCEPT ![id] = AfterInitialResponse(calls[id], response)]
    /\ UNCHANGED <<policy, ledger, cb, started>>

\* storage.getTotal resolves (or rejects): check 4, then the count is read.
ClientTotalReturn(id, resolved) ==
    /\ calls[id].pc = "total"
    /\ LET c == calls[id]
       IN  calls' = [calls EXCEPT ![id] =
                IF ~resolved THEN Throw(c)
                ELSE IF TotalDenied(policy.outgoing, c.total, c.amount)
                THEN Return(c, "initial")
                ELSE Log([c EXCEPT !.pc = "count",
                                   !.count = getCount(ledger, "outgoing",
                                               policy.outgoing.windowMs, now)],
                         <<"getCount">>)]
    /\ UNCHANGED <<policy, ledger, cb, started>>

\* storage.getCount resolves (or rejects): check 5, the breaker, then signing.
ClientCountReturn(id, resolved) ==
    /\ calls[id].pc = "count"
    /\ LET c == calls[id]
           breakerResult == check(cb, c.amount, now)
       IN  IF ~resolved
           THEN calls' = [calls EXCEPT ![id] = Throw(c)] /\ UNCHANGED cb
           ELSE IF CountDenied(policy.outgoing, c.count)
           THEN calls' = [calls EXCEPT ![id] = Return(c, "initial")] /\ UNCHANGED cb
           ELSE /\ cb' = breakerResult.cb
                /\ calls' = [calls EXCEPT ![id] =
                        IF ~breakerResult.allowed
                        THEN Return(Log(c, <<"check">>), "initial")
                        ELSE Log([c EXCEPT !.pc = "sign", !.signed = c.requirement],
                                 <<"check", "buildPaymentHeader">>)]
    /\ UNCHANGED <<policy, ledger, started>>

\* The two catch blocks after the breaker allowed the payment:
\* circuitBreaker.recordFailure(), then return initialResponse.
NoFailureAfterAllow(c, breaker, t) == [call |-> Return(c, "initial"), cb |-> breaker]
FailureAfterAllow(c, breaker, t) ==
    [call |-> Return(Log(c, <<"recordFailure">>), "initial"),
     cb   |-> recordFailure(breaker, t)]

\* The request is sent again, once, with the X-PAYMENT header set.
RetrySentTwice(c) ==
    Log([c EXCEPT !.pc = "retry", !.paymentHeader = PaymentHeaderFor(c.requirement)],
        <<"retry", "retry">>)
RetrySent(c) ==
    Log([c EXCEPT !.pc = "retry", !.paymentHeader = PaymentHeaderFor(c.requirement)],
        <<"retry">>)

\* signer.buildPaymentHeader resolves or throws; the retry is sent.
ClientSignReturn(id, signedOk) ==
    /\ calls[id].pc = "sign"
    /\ LET c == calls[id]
       IN  IF ~signedOk
           THEN /\ cb' = FailureAfterAllow(c, cb, now).cb
                /\ calls' = [calls EXCEPT ![id] = FailureAfterAllow(c, cb, now).call]
           ELSE /\ calls' = [calls EXCEPT ![id] = RetrySent(c)]
                /\ UNCHANGED cb
    /\ UNCHANGED <<policy, ledger, started>>

\* The retry resolves or rejects; the record is handed to storage.recordPayment.
ClientRetryReturn(id, response) ==
    /\ calls[id].pc = "retry"
    /\ LET c == calls[id]
       IN  IF response = Rejected
           THEN /\ cb' = FailureAfterAllow(c, cb, now).cb
                /\ calls' = [calls EXCEPT ![id] = FailureAfterAllow(c, cb, now).call]
           ELSE /\ calls' = [calls EXCEPT ![id] =
                        Log([c EXCEPT !.pc = "record", !.retry = response,
                                      !.createdAt = now],
                            <<"recordPayment">>)]
                /\ UNCHANGED cb
    /\ UNCHANGED <<policy, ledger, started>>

\* The breaker update that follows the write, whether or not it was stored.
BreakerUpdateIfStored(c, breaker, stored, t) ==
    IF ~stored THEN breaker
    ELSE IF Ok(c.retry) THEN recordSuccess(breaker, c.amount, t)
    ELSE recordFailure(breaker, t)
BreakerUpdate(c, breaker, stored, t) ==
    IF Ok(c.retry) THEN recordSuccess(breaker, c.amount, t)
    ELSE recordFailure(breaker, t)

\* storage.recordPayment resolves or rejects; the breaker is updated; the retry
\* response is returned.
ClientRecordReturn(id, stored) ==
    /\ calls[id].pc = "record"
    /\ LET c == calls[id]
       IN  /\ ledger' = IF stored THEN Append(ledger, OutgoingRecord(c, c.retry))
                        ELSE ledger
           /\ cb' = BreakerUpdate(c, cb, stored, now)
           /\ calls' = [calls EXCEPT ![id] =
                    Return(Log(c, <<IF stored THEN "stored" ELSE "rejected",
                                    IF Ok(c.retry) THEN "recordSuccess" ELSE "recordFailure">>),
                           "retry")]
    /\ UNCHANGED <<policy, started>>

(***************************************************************************)
(* The breaker on its own: any sequence of calls, with the clock advancing *)
(***************************************************************************)
Tick ==
    /\ now + TickMs <= MaxTicks * TickMs
    /\ now' = now + TickMs
    /\ UNCHANGED <<breakerVars, serverVars, clientVars, engineVars, storageVars, observerVars>>

CheckCall ==
    \E amount \in Amounts :
        LET r == check(cb, amount, now)
        IN  /\ cb' = r.cb
            /\ lastCall' = CallRecord("check", amount, r.allowed, r.reason)
            /\ UNCHANGED <<now, serverVars, clientVars, engineVars, storageVars, observerVars>>

RecordSuccessCall ==
    \E amount \in Amounts :
        /\ Len(cb.recentTimestamps) < MaxTimestamps
        /\ cb' = recordSuccess(cb, amount, now)
        /\ lastCall' = CallRecord("recordSuccess", amount, TRUE, "")
        /\ UNCHANGED <<now, serverVars, clientVars, engineVars, storageVars, observerVars>>

RecordFailureCall ==
    /\ cb' = recordFailure(cb, now)
    /\ lastCall' = CallRecord("recordFailure", 0, TRUE, "")
    /\ UNCHANGED <<now, serverVars, clientVars, engineVars, storageVars, observerVars>>

ResetCall ==
    /\ cb' = reset(cb)
    /\ lastCall' = CallRecord("reset", 0, TRUE, "")
    /\ UNCHANGED <<now, serverVars, clientVars, engineVars, storageVars, observerVars>>

ServerIdle ==
    /\ srvCfg = CHOOSE c \in PaywallConfigs : c.storage /\ c.onStorageError
    /\ srvLedger = <<>>
    /\ reqs = [id \in ReqIds |-> IdleRequest]

ClientIdle ==
    /\ policy = DefaultPolicy
    /\ ledger = <<>>
    /\ calls = [id \in CallIds |-> IdleCall]
    /\ started = 0

EngineIdle ==
    /\ copy = NoCopy
    /\ evals = [id \in EvalIds |-> IdleEval]

BreakerInit ==
    /\ now = 0
    /\ cb = NewBreaker
    /\ lastCall = NoCall
    /\ ServerIdle
    /\ ClientIdle
    /\ EngineIdle
    /\ StorageIdle
    /\ ObserverIdle

BreakerNext ==
    \/ Tick
    \/ CheckCall
    \/ RecordSuccessCall
    \/ RecordFailureCall
    \/ ResetCall

SpecBreaker == BreakerInit /\ [][BreakerNext]_vars

(***************************************************************************)
(* Claims about the circuit breaker (checked under SpecBreaker)            *)
(***************************************************************************)
\* A step of SpecBreaker that is a call of the named method: the clock stands
\* still during a call, and every call writes lastCall.
IsCall(op) == now' = now /\ lastCall'.op = op

\* The number of recorded timestamps younger than 60 seconds at time t.
YoungCount(b, t) ==
    Cardinality({i \in 1..Len(b.recentTimestamps) : t - b.recentTimestamps[i] < OneMinuteMs})

\* The guards of check as the specification words them.
RateGuardFails(b, t) == YoungCount(b, t) >= CfgMaxPaymentsPerMinute
AnomalyGuardFails(b, amount) ==
    /\ Len(b.recentAmounts) >= 3
    /\ SumSeq(b.recentAmounts) \div Len(b.recentAmounts) > 0
    /\ amount > (SumSeq(b.recentAmounts) \div Len(b.recentAmounts)) * CfgAnomalyMultiplier

\* C9: check called while open denies and leaves state and trip time alone while
\* less than cooldownMs has passed since the trip; once cooldownMs has passed it
\* goes to half-open and returns what the rate and anomaly guards return (allowed,
\* in state half-open, when both pass; a new trip otherwise). Only such a check
\* (to half-open) and reset (to closed) take the breaker out of open.
C9_CheckWhileOpen ==
    [][cb.state = "open" =>
        /\ (IsCall("check") /\ now - cb.trippedAt < DefaultCooldownMs) =>
                /\ ~lastCall'.allowed
                /\ cb'.state = "open"
                /\ cb'.trippedAt = cb.trippedAt
        /\ (IsCall("check") /\ now - cb.trippedAt >= DefaultCooldownMs) =>
                LET pass == /\ ~RateGuardFails(cb, now)
                            /\ ~AnomalyGuardFails(cb, lastCall'.amount)
                IN  /\ lastCall'.allowed <=> pass
                    /\ pass => cb'.state = "half-open" /\ cb'.trippedAt = cb.trippedAt
                    /\ ~pass => /\ cb'.state = "open"
                                /\ cb'.trippedAt = now
                                /\ lastCall'.reason \in {ReasonRate, ReasonAnomaly}
        /\ cb'.state # "open" =>
                \/ IsCall("check") /\ cb'.state = "half-open"
                \/ IsCall("reset") /\ cb'.state = "closed"
      ]_vars

\* A check found the breaker open with the cooldown over and let the probe through.
C9_Witness ==
    /\ lastCall.op = "check"
    /\ lastCall.pre = "open"
    /\ lastCall.allowed
    /\ cb.state = "half-open"
    /\ now - cb.trippedAt = DefaultCooldownMs

\* C10: recordSuccess called while half-open closes the breaker and empties the
\* trip reason; called while closed or open it leaves the state as it is.
C10_RecordSuccessState ==
    [][IsCall("recordSuccess") =>
        /\ cb.state = "half-open" => cb'.state = "closed" /\ cb'.lastTripReason = ""
        /\ cb.state # "half-open" => cb'.state = cb.state
      ]_vars

\* recordSuccess was called on a half-open breaker that had tripped before.
C10_Witness ==
    /\ lastCall.op = "recordSuccess"
    /\ lastCall.pre = "half-open"
    /\ cb.state = "closed"
    /\ cb.trippedAt > 0

\* C11: recordFailure called while half-open opens the breaker with the current
\* time as trip time and a non-empty trip reason; called while closed or open it
\* changes nothing.
C11_RecordFailure ==
    [][IsCall("recordFailure") =>
        /\ cb.state = "half-open" =>
                /\ cb'.state = "open"
                /\ cb'.trippedAt = now
                /\ cb'.lastTripReason # ""
                /\ cb'.recentTimestamps = cb.recentTimestamps
                /\ cb'.recentAmounts = cb.recentAmounts
        /\ cb.state # "half-open" => cb' = cb
      ]_vars

\* A failed probe re-opened a breaker that had tripped a cooldown earlier.
C11_Witness ==
    /\ lastCall.op = "recordFailure"
    /\ lastCall.pre = "half-open"
    /\ cb.state = "open"
    /\ cb.trippedAt = now
    /\ now >= DefaultCooldownMs
    /\ cb.lastTripReason = ReasonProbe

\* The check is not answered by the cooldown test: the breaker is not open, or
\* cooldownMs has passed since it tripped.
PastCooldown == cb.state # "open" \/ now - cb.trippedAt >= DefaultCooldownMs

\* The timestamps of b less than 60 seconds old at time t, in their order.
Young(b, t) == SelectSeq(b.recentTimestamps, LAMBDA x : t - x < OneMinuteMs)

\* C12: a check not denied by an unexpired cooldown leaves in the timestamp
\* window exactly the timestamps less than 60 seconds old, and trips to open,
\* denying with the rate reason, exactly when at least maxPaymentsPerMinute of
\* them remain.
C12_RateGuard ==
    [][(IsCall("check") /\ PastCooldown) =>
        /\ cb'.recentTimestamps = Young(cb, now)
        /\ (Len(Young(cb, now)) >= CfgMaxPaymentsPerMinute) <=>
                /\ ~lastCall'.allowed
                /\ lastCall'.reason = ReasonRate
                /\ cb'.state = "open"
                /\ cb'.trippedAt = now
                /\ cb'.lastTripReason = ReasonRate
      ]_vars

\* A check dropped a timestamp exactly 60 seconds old and so stayed under the
\* rate limit it would otherwise have met.
C12_Witness ==
    /\ lastCall.op = "check"
    /\ lastCall.allowed
    /\ now = OneMinuteMs
    /\ Len(cb.recentTimestamps) = CfgMaxPaymentsPerMinute - 1
    /\ \A i \in 1..Len(cb.recentTimestamps) : cb.recentTimestamps[i] > 0
    /\ Len(cb.recentAmounts) = CfgMaxPaymentsPerMinute

\* C13: a check past the cooldown and rate guards trips to open, denying with the
\* anomaly reason, exactly when the amount window holds at least 3 amounts, their
\* integer mean is positive and the amount exceeds mean times anomalyMultiplier.
C13_AnomalyGuard ==
    [][(IsCall("check") /\ PastCooldown /\ ~RateGuardFails(cb, now)) =>
        /\ AnomalyGuardFails(cb, lastCall'.amount) <=>
                /\ ~lastCall'.allowed
                /\ lastCall'.reason = ReasonAnomaly
                /\ cb'.state = "open"
                /\ cb'.trippedAt = now
        /\ ~AnomalyGuardFails(cb, lastCall'.amount) =>
                /\ lastCall'.allowed
                /\ cb'.state = (IF cb.state = "open" THEN "half-open" ELSE cb.state)
        /\ cb'.recentAmounts = cb.recentAmounts
      ]_vars

\* Three recorded amounts whose integer mean is zero although their sum is not:
\* a larger amount passes the check.
C13_Witness ==
    /\ lastCall.op = "check"
    /\ lastCall.allowed
    /\ lastCall.amount = 5
    /\ Len(cb.recentAmounts) = 3
    /\ SumSeq(cb.recentAmounts) > 0
    /\ SumSeq(cb.recentAmounts) \div 3 = 0

\* C14 as stated: both windows hold at most recentWindowSize entries.
C14_WindowsBounded ==
    /\ Len(cb.recentAmounts) <= CfgRecentWindowSize
    /\ Len(cb.recentTimestamps) <= CfgRecentWindowSize

C16_SingleProbe ==
    [][(IsCall("check") /\ cb.state = "half-open") => ~lastCall'.allowed]_vars


(***************************************************************************)
(* The paywall on its own: requests with any headers, any facilitator      *)
(***************************************************************************)
PaywallInit ==
    /\ now = 0
    /\ cb = NewBreaker
    /\ lastCall = NoCall
    /\ srvCfg \in PaywallConfigs
    /\ srvLedger = <<>>
    /\ reqs = [id \in ReqIds |-> IdleRequest]
    /\ ClientIdle
    /\ EngineIdle
    /\ StorageIdle
    /\ ObserverIdle

PaywallNext ==
    \/ \E id \in ReqIds, headers \in RequestHeaders, url \in RequestUrls :
            PaywallStart(id, headers, url) /\ UNCHANGED <<now, breakerVars, clientVars, engineVars, storageVars, observerVars>>
    \/ \E id \in ReqIds, answer \in VerifyAnswers :
            VerifyReturn(id, answer) /\ UNCHANGED <<now, breakerVars, clientVars, engineVars, storageVars, observerVars>>
    \/ \E id \in ReqIds, answer \in SettleAnswers :
            SettleReturn(id, answer) /\ UNCHANGED <<now, breakerVars, clientVars, engineVars, storageVars, observerVars>>
    \/ \E id \in ReqIds, stored \in BOOLEAN :
            RecordReturn(id, stored) /\ UNCHANGED <<now, breakerVars, clientVars, engineVars, storageVars, observerVars>>

SpecPaywall == PaywallInit /\ [][PaywallNext]_vars

(***************************************************************************)
(* The client on its own: fetchWithPayment against any server              *)
(***************************************************************************)
Offer(networkKey, amountChars, payTo) ==
    [scheme            |-> "upto",
     network           |-> resolveNetwork(networkKey).caip2,
     maxAmountRequired |-> amountChars,
     resource          |-> "/data",
     payTo             |-> payTo,
     asset             |-> resolveNetwork(networkKey).usdcAddress,
     extraName         |-> resolveNetwork(networkKey).usdcDomainName]

Encoded(accepts) == ToBase64(JsonStringify([x402Version |-> 2, accepts |-> accepts]))
OneOffer == <<Offer("base-sepolia", BigIntToString(50000), "0xPayee")>>
ManyOffers ==
    <<Offer("base", BigIntToString(5), "0xOther"),
      Offer("base-sepolia", BigIntToString(500), "0xPayee"),
      Offer("base-sepolia", BigIntToString(5), "0xOther")>>

InitialResponses ==
    { Rejected,
      Response(200, {}),
      Response(401, {Header("Payment-Required", Encoded(OneOffer))}),
      Response(402, {}),
      Response(402, {Header("Payment-Required", Encoded(<<>>))}),
      Response(402, {Header("Payment-Required", ToBase64(JsonStringify(
          [x402Version |-> 2, acceptsKind |-> "missing", accepts |-> <<>>])))}),
      Response(402, {Header("Payment-Required", ToBase64(JsonStringify(
          [x402Version |-> 2, acceptsKind |-> "object", accepts |-> <<>>])))}),
      Response(402, {Header("Payment-Required",
          Encoded(<<Offer("base", BigIntToString(50000), "0xPayee"),
                    Offer("ethereum", BigIntToString(5), "0xPayee")>>))}),
      Response(402, {Header("Payment-Required", Encoded(ManyOffers))}),
      Response(402, {Header("Payment-Required", Encoded(OneOffer))}),
      Response(402, {Header("Payment-Required",
          Encoded(<<Offer("base-sepolia", <<"1", "e", "3">>, "0xPayee")>>))}),
      Response(402, {Header("X-402", JsonStringify([x402Version |-> 2, accepts |-> OneOffer]))}),
      Response(402, {Header("payment-required", PlainText),
                     Header("x-402", Encoded(OneOffer))}),
      Response(402, {Header("payment-required", EmptyString),
                     Header("x-402", Encoded(OneOffer))}),
      Response(402, {Header("X-Payment-Required", Encoded(OneOffer))}) }

RetryResponses ==
    { Rejected,
      Response(200, {Header("x-upto-session-id", Text("0xTx")),
                     Header("X-PAYMENT-RESPONSE", Text("0xTx"))}),
      Response(200, {Header("x-payment-response", Text("0xLegacy"))}),
      Response(204, {}),
      Response(402, {Header("Payment-Required", Encoded(OneOffer))}),
      Response(500, {}) }

\* Breakers the client may be handed: a new one, one that has seen two small
\* payments, one tripped by the check that follows a third, and one tripped
\* in the same way by payments of the size the client is asked for.
TwoPaid == recordSuccess(recordSuccess(NewBreaker, 1, 0), 1, 0)
TwoPaidInFull == recordSuccess(recordSuccess(NewBreaker, 50000, 0), 50000, 0)
Breakers ==
    {NewBreaker, TwoPaid, check(recordSuccess(TwoPaid, 1, 0), 1, 0).cb,
     check(recordSuccess(TwoPaidInFull, 50000, 0), 50000, 0).cb}

\* Ledgers the client may start from: an empty one, and one holding the record
\* of an earlier call that paid.
PaidBefore ==
    OutgoingRecord([IdleCall EXCEPT !.requirement = OneOffer[1], !.amount = 50000],
                   Response(200, {Header("x-upto-session-id", Text("0xTx"))}))
Ledgers == {<<>>, <<PaidBefore>>}

ClientInit ==
    /\ now = 0
    /\ cb \in Breakers
    /\ lastCall = NoCall
    /\ ServerIdle
    /\ policy \in Policies
    /\ ledger \in Ledgers
    /\ calls = [id \in CallIds |-> IdleCall]
    /\ started = 0
    /\ EngineIdle
    /\ StorageIdle
    /\ ObserverIdle

ClientNext ==
    \/ Tick
    \/ \E id \in CallIds :
            ClientStart(id) /\ UNCHANGED <<now, lastCall, serverVars, engineVars, storageVars, observerVars>>
    \/ \E id \in CallIds, response \in InitialResponses :
            ClientInitialResponse(id, response) /\ UNCHANGED <<now, lastCall, serverVars, engineVars, storageVars, observerVars>>
    \/ \E id \in CallIds, resolved \in BOOLEAN :
            ClientTotalReturn(id, resolved) /\ UNCHANGED <<now, lastCall, serverVars, engineVars, storageVars, observerVars>>
    \/ \E id \in CallIds, resolved \in BOOLEAN :
            ClientCountReturn(id, resolved) /\ UNCHANGED <<now, lastCall, serverVars, engineVars, storageVars, observerVars>>
    \/ \E id \in CallIds, signedOk \in BOOLEAN :
            ClientSignReturn(id, signedOk) /\ UNCHANGED <<now, lastCall, serverVars, engineVars, storageVars, observerVars>>
    \/ \E id \in CallIds, response \in RetryResponses :
            ClientRetryReturn(id, response) /\ UNCHANGED <<now, lastCall, serverVars, engineVars, storageVars, observerVars>>
    \/ \E id \in CallIds, stored \in BOOLEAN :
            ClientRecordReturn(id, stored) /\ UNCHANGED <<now, lastCall, serverVars, engineVars, storageVars, observerVars>>

SpecClient == ClientInit /\ [][ClientNext]_vars

(***************************************************************************)
(* The client served by the paywall: every request of fetchWithPayment is  *)
(* handled by the middleware, whose facilitator answers in any way.  The   *)
(* transport may lose a response; the protected handler answers with any   *)
(* of HandlerStatuses.                                                     *)
(***************************************************************************)
HandlerStatuses == {200, 201, 500}
\* The one middleware instance the client talks to.
Server == CHOOSE id \in ReqIds : TRUE

E2EVerifyAnswers ==
    {[kind |-> "reject"],
     [kind |-> "json", isValid |-> JsonTrue, payer |-> "0xPayer", invalidReason |-> Undefined],
     [kind |-> "json", isValid |-> JsonTrue, payer |-> Undefined, invalidReason |-> Undefined],
     [kind |-> "json", isValid |-> "false", payer |-> "0xPayer",
      invalidReason |-> "bad signature"]}
E2ESettleAnswers ==
    {[kind |-> "status"],
     [kind |-> "json", success |-> JsonTrue, transaction |-> "0xTx", errorReason |-> Undefined],
     [kind |-> "json", success |-> JsonTrue, transaction |-> Undefined,
      errorReason |-> Undefined],
     [kind |-> "json", success |-> "false", transaction |-> Undefined,
      errorReason |-> "reverted"]}

\* The response the client sees once the middleware is done with a request: the
\* middleware's own 402, or the handler's response when next() was invoked.
Seen(r, handlerStatus) ==
    IF \E i \in 1..Len(r.log) : r.log[i] = "next"
    THEN Response(handlerStatus, r.res.headers)
    ELSE Response(r.res.status, r.res.headers)

ServerFree == reqs[Server].pc \in {"idle", "done"}

E2ESend(id) ==
    /\ ServerFree
    /\ ClientStart(id)
    /\ reqs' = [reqs EXCEPT ![Server] = Arrive(srvCfg, <<>>, "/data")]
    /\ UNCHANGED <<now, lastCall, srvCfg, srvLedger, engineVars, storageVars, observerVars>>

E2EInitialResponse(id, delivered, handlerStatus) ==
    /\ reqs[Server].pc = "done"
    /\ ClientInitialResponse(id, IF delivered THEN Seen(reqs[Server], handlerStatus)
                                 ELSE Rejected)
    /\ UNCHANGED <<now, lastCall, serverVars, engineVars, storageVars, observerVars>>

E2ESign(id, signedOk) ==
    /\ ClientSignReturn(id, signedOk)
    /\ reqs' = IF signedOk
               THEN [reqs EXCEPT ![Server] =
                        Arrive(srvCfg, RetryHeaders(PaymentHeaderFor(calls[id].requirement)),
                               "/data")]
               ELSE reqs
    /\ UNCHANGED <<now, lastCall, srvCfg, srvLedger, engineVars, storageVars, observerVars>>

E2ERetryResponse(id, delivered, handlerStatus) ==
    /\ reqs[Server].pc = "done"
    /\ ClientRetryReturn(id, IF delivered THEN Seen(reqs[Server], handlerStatus)
                             ELSE Rejected)
    /\ UNCHANGED <<now, lastCall, serverVars, engineVars, storageVars, observerVars>>

E2EInit ==
    /\ now = 0
    /\ cb \in Breakers
    /\ lastCall = NoCall
    /\ srvCfg \in PaywallConfigs
    /\ srvLedger = <<>>
    /\ reqs = [id \in ReqIds |-> IdleRequest]
    /\ policy \in {DefaultPolicy, [DefaultPolicy EXCEPT !.outgoing.maxPerTransaction = 10000]}
    /\ ledger = <<>>
    /\ calls = [id \in CallIds |-> IdleCall]
    /\ started = 0
    /\ EngineIdle
    /\ StorageIdle
    /\ ObserverIdle

E2ENext ==
    \/ \E id \in CallIds : E2ESend(id)
    \/ \E id \in CallIds, delivered \in BOOLEAN, handlerStatus \in HandlerStatuses :
            E2EInitialResponse(id, delivered, handlerStatus)
    \/ \E id \in CallIds, resolved \in BOOLEAN :
            ClientTotalReturn(id, resolved) /\ UNCHANGED <<now, lastCall, serverVars, engineVars, storageVars, observerVars>>
    \/ \E id \in CallIds, resolved \in BOOLEAN :
            ClientCountReturn(id, resolved) /\ UNCHANGED <<now, lastCall, serverVars, engineVars, storageVars, observerVars>>
    \/ \E id \in CallIds, signedOk \in BOOLEAN : E2ESign(id, signedOk)
    \/ \E answer \in E2EVerifyAnswers :
            VerifyReturn(Server, answer) /\ UNCHANGED <<now, breakerVars, clientVars, engineVars, storageVars, observerVars>>
    \/ \E answer \in E2ESettleAnswers :
            SettleReturn(Server, answer) /\ UNCHANGED <<now, breakerVars, clientVars, engineVars, storageVars, observerVars>>
    \/ \E stored \in BOOLEAN :
            RecordReturn(Server, stored) /\ UNCHANGED <<now, breakerVars, clientVars, engineVars, storageVars, observerVars>>
    \/ \E id \in CallIds, delivered \in BOOLEAN, handlerStatus \in HandlerStatuses :
            E2ERetryResponse(id, delivered, handlerStatus)
    \/ \E id \in CallIds, stored \in BOOLEAN :
            ClientRecordReturn(id, stored) /\ UNCHANGED <<now, lastCall, serverVars, engineVars, storageVars, observerVars>>

\* Every awaited promise settles: a step that can be taken is taken.
SpecE2E == E2EInit /\ [][E2ENext]_vars /\ WF_vars(E2ENext)

(***************************************************************************)
(* The policy engine on its own: evaluations against a ledger that others  *)
(* write to while the clock advances                                       *)
(***************************************************************************)
EnginePolicies ==
    Policies \cup
    {[DefaultPolicy EXCEPT !.outgoing.maxPerTransaction = 10000,
                           !.outgoing.blockedRecipients = <<"0xPAYEE">>,
                           !.outgoing.allowedRecipients = <<"0xOther">>],
     [DefaultPolicy EXCEPT !.incoming.minPerTransaction = 100],
     [DefaultPolicy EXCEPT !.incoming.blockedSenders = <<"0xOther", "0xPAYER">>],
     [DefaultPolicy EXCEPT !.incoming.allowedSenders = <<"0xpayer">>],
     [DefaultPolicy EXCEPT !.incoming.minPerTransaction = 100,
                           !.incoming.blockedSenders = <<"0xPAYER">>,
                           !.incoming.allowedSenders = <<"0xOther">>]}

OutgoingRequests == [amount : {5, 50000, 2000000}, recipient : {"0xPayee", "0xOther"}]
IncomingRequests == [amount : {0, 50, 50000}, sender : {"0xPayer", "0xOther"}]

\* Records others may write: a confirmed, a pending and a failed outgoing
\* payment, and an incoming one.
WrittenRecords ==
    {PaidBefore,
     [PaidBefore EXCEPT !.status = "pending", !.amount = 10000],
     [PaidBefore EXCEPT !.status = "failed"],
     [PaidBefore EXCEPT !.direction = "incoming"]}

PolicyInit ==
    /\ now = 0
    /\ cb = NewBreaker
    /\ lastCall = NoCall
    /\ ServerIdle
    /\ policy \in EnginePolicies
    /\ ledger = <<>>
    /\ calls = [id \in CallIds |-> IdleCall]
    /\ started = 0
    /\ EngineIdle
    /\ StorageIdle
    /\ ObserverIdle

PolicyNext ==
    \/ Tick
    \/ \E id \in EvalIds, request \in OutgoingRequests :
            EvaluateOutgoingCall(id, request)
                /\ UNCHANGED <<now, breakerVars, serverVars, calls, started, storageVars, observerVars>>
    \/ \E id \in EvalIds :
            EvaluateOutgoingTotal(id)
                /\ UNCHANGED <<now, breakerVars, serverVars, calls, started, storageVars, observerVars>>
    \/ \E id \in EvalIds :
            EvaluateOutgoingCount(id)
                /\ UNCHANGED <<now, breakerVars, serverVars, calls, started, storageVars, observerVars>>
    \/ \E id \in EvalIds, request \in IncomingRequests :
            EvaluateIncomingCall(id, request)
                /\ UNCHANGED <<now, breakerVars, serverVars, calls, started, storageVars, observerVars>>
    \/ \E record \in WrittenRecords :
            RecordPaymentCall(record)
                /\ UNCHANGED <<now, breakerVars, serverVars, calls, started, storageVars, observerVars>>

SpecPolicy == PolicyInit /\ [][PolicyNext]_vars

(***************************************************************************)
(* The policy engine and its administration: updatePolicy, getPolicy and   *)
(* what a caller does with the object getPolicy returned                   *)
(***************************************************************************)
Partials ==
    {[outgoing |-> [maxPerTransaction |-> 5]],
     [outgoing |-> [maxTotal |-> 60000, blockedRecipients |-> <<"0xOther">>]],
     [incoming |-> [minPerTransaction |-> 100]],
     [outgoing |-> DefaultPolicy.outgoing, incoming |-> [blockedSenders |-> <<"0xOther">>]]}

\* What the caller pushes, and where.
CopyPushes ==
    {[limb |-> "outgoing", field |-> "blockedRecipients", address |-> "0xPayee"],
     [limb |-> "incoming", field |-> "blockedSenders", address |-> "0xPayer"]}

AdminInit ==
    /\ now = 0
    /\ cb = NewBreaker
    /\ lastCall = NoCall
    /\ ServerIdle
    /\ policy \in {DefaultPolicy,
                   [DefaultPolicy EXCEPT !.outgoing.blockedRecipients = <<"0xOTHER">>,
                                         !.incoming.allowedSenders = <<"0xpayer">>]}
    /\ ledger = <<>>
    /\ calls = [id \in CallIds |-> IdleCall]
    /\ started = 0
    /\ EngineIdle
    /\ StorageIdle
    /\ ObserverIdle

AdminNext ==
    \/ \E partial \in Partials :
            UpdatePolicyCall(partial)
                /\ UNCHANGED <<now, breakerVars, serverVars, calls, started, storageVars, observerVars>>
    \/ GetPolicyCall /\ UNCHANGED <<now, breakerVars, serverVars, calls, started, storageVars, observerVars>>
    \/ CopyAssign("outgoing", "maxPerTransaction", 1)
            /\ UNCHANGED <<now, breakerVars, serverVars, calls, started, storageVars, observerVars>>
    \/ CopyAssign("outgoing", "blockedRecipients", <<"0xPayee">>)
            /\ UNCHANGED <<now, breakerVars, serverVars, calls, started, storageVars, observerVars>>
    \/ \E w \in CopyPushes :
            CopyPush(w.limb, w.field, w.address)
                /\ UNCHANGED <<now, breakerVars, serverVars, calls, started, storageVars, observerVars>>
    \/ \E id \in EvalIds, request \in {[amount |-> 50000, recipient |-> "0xPayee"]} :
            EvaluateOutgoingCall(id, request)
                /\ UNCHANGED <<now, breakerVars, serverVars, calls, started, storageVars, observerVars>>
    \/ \E id \in EvalIds :
            EvaluateOutgoingTotal(id)
                /\ UNCHANGED <<now, breakerVars, serverVars, calls, started, storageVars, observerVars>>
    \/ \E id \in EvalIds :
            EvaluateOutgoingCount(id)
                /\ UNCHANGED <<now, breakerVars, serverVars, calls, started, storageVars, observerVars>>
    \/ \E id \in EvalIds, request \in {[amount |-> 50000, sender |-> "0xPayer"]} :
            EvaluateIncomingCall(id, request)
                /\ UNCHANGED <<now, breakerVars, serverVars, calls, started, storageVars, observerVars>>

SpecPolicyAdmin == AdminInit /\ [][AdminNext]_vars

(***************************************************************************)
(* Claims about the paywall (checked under SpecPaywall)                    *)
(***************************************************************************)
Count(log, event) == Cardinality({i \in 1..Len(log) : log[i] = event})
Position(log, event) == CHOOSE i \in 1..Len(log) : log[i] = event
Before(log, a, b) ==
    \A i, j \in 1..Len(log) : (log[i] = a /\ log[j] = b) => i < j

\* The ledger records the paywall wrote for request id.
RecordsOf(id) ==
    {i \in 1..Len(srvLedger) : srvLedger[i].id = <<"x402_in", id>>}

\* The verify call of request id has returned.
VerifyReturned(id) == reqs[id].pc \in {"settle", "record", "done"} /\ reqs[id].log # <<>>

\* No header of the request is named x-payment in any letter case.
CarriesNoProofHeader(headers) ==
    \A i \in 1..Len(headers) :
        headers[i].key \notin {"x-payment", "X-PAYMENT", "X-Payment"}

\* C3: next is invoked only if the verify call of that request returned valid;
\* when it returned invalid the middleware answers 402 with a reason and neither
\* calls settle, nor writes a ledger record, nor invokes next.
C3_NextOnlyIfVerified ==
    \A id \in DOMAIN reqs :
        LET r == reqs[id] IN
        /\ Count(r.log, "next") > 0 => r.verifyResult.valid
        /\ (VerifyReturned(id) /\ ~r.verifyResult.valid) =>
                /\ r.pc = "done"
                /\ r.res.status = 402
                /\ r.res.error = "Payment Invalid"
                /\ r.res.reason # Undefined
                /\ Count(r.log, "settle") = 0
                /\ Count(r.log, "recordPayment") = 0
                /\ RecordsOf(id) = {}
                /\ Count(r.log, "next") = 0

\* The facilitator answered 200 with isValid missing and no reason: the 402 carries
\* the default reason.
C3_Witness ==
    \E id \in DOMAIN reqs :
        /\ Count(reqs[id].log, "POST /verify") = 1
        /\ reqs[id].pc = "done"
        /\ ~reqs[id].verifyResult.valid
        /\ reqs[id].verifyResult.reason = Undefined
        /\ reqs[id].res.reason = "Payment verification failed"

\* C4: a request with no x-payment header in any letter case is answered 402 with
\* a JSON error body; Payment-Required and x-402 carry the same base64 encoding
\* of {x402Version: 2, accepts: [requirement]}, the requirement's resource being
\* the request URL ("/" when the request has none); no facilitator call, no ledger
\* record, no next.
C4_ChallengeWhenNoProof ==
    \A id \in DOMAIN reqs :
        LET r == reqs[id] IN
        (r.pc # "idle" /\ CarriesNoProofHeader(r.headers)) =>
            /\ r.pc = "done"
            /\ r.res.status = 402
            /\ r.res.error = "Payment Required"
            /\ \E encoded \in {h.value : h \in r.res.headers} :
                /\ r.res.headers = {Header("Payment-Required", encoded), Header("x-402", encoded)}
                /\ encoded.enc = "base64"
                /\ encoded.of.enc = "json"
                /\ encoded.of.val.x402Version = 2
                /\ Len(encoded.of.val.accepts) = 1
                /\ encoded.of.val.accepts[1].resource =
                        (IF r.url = Undefined THEN "/" ELSE r.url)
                /\ encoded.of.val.accepts[1].maxAmountRequired = <<"5", "0", "0", "0", "0">>
                /\ encoded.of.val.accepts[1].network = "eip155:84532"
            /\ r.log = <<>>
            /\ RecordsOf(id) = {}

\* A request for /data with an unrelated header only got the challenge.
C4_Witness ==
    \E id \in DOMAIN reqs :
        /\ reqs[id].headers = <<Entry("accept", StrVal(Text("json")))>>
        /\ reqs[id].url = "/data"
        /\ reqs[id].res.status = 402
        /\ Cardinality(reqs[id].res.headers) = 2

\* C5: once verification succeeded the middleware calls settle exactly once and,
\* after it, next exactly once, whether settlement succeeded or failed and whether
\* the ledger write failed or not.
C5_SettleThenNextOnce ==
    \A id \in DOMAIN reqs :
        LET r == reqs[id] IN
        r.verifyResult.valid =>
            /\ Count(r.log, "settle") = 1
            /\ Count(r.log, "next") <= 1
            /\ Before(r.log, "settle", "next")
            /\ r.pc \in {"settle", "record", "done"}
            /\ r.pc = "done" =>
                    /\ Count(r.log, "POST /settle") = 1
                    /\ Count(r.log, "next") = 1
                    /\ r.log[Len(r.log)] = "next"

\* Settlement failed and the ledger write was rejected, and next was still invoked.
C5_Witness ==
    \E id \in DOMAIN reqs :
        /\ reqs[id].pc = "done"
        /\ reqs[id].verifyResult.valid
        /\ ~reqs[id].settleResult.success
        /\ Count(reqs[id].log, "rejected") = 1
        /\ Count(reqs[id].log, "next") = 1

\* C6 (as claimed): whenever the facilitator could not verify or could not settle
\* the presented proof, the paywall answers 402 with a reason string.
C6_Always402WhenUnpaid ==
    \A id \in DOMAIN reqs :
        LET r == reqs[id] IN
        (/\ r.pc = "done"
         /\ Count(r.log, "verify") = 1
         /\ (~r.verifyResult.valid \/ ~r.settleResult.success)) =>
            /\ r.res.status = 402
            /\ r.res.reason # Undefined

Has(c, event) == Count(c.log, event) > 0

\* The list a 402 response offers, <<>> when it offers none.
Offered(c) ==
    IF c.initial.status = 402 /\ AcceptsKind(parsePaymentRequired(c.initial)) = "list"
    THEN parsePaymentRequired(c.initial).accepts
    ELSE <<>>

\* A 402 response has been received whose challenge, if it carries one, lists
\* no entry on the signer's network.
NoEntryMatches(c) ==
    /\ c.initial.status = 402
    /\ AcceptsKind(parsePaymentRequired(c.initial)) \in {"list", "missing"}
    /\ \A i \in 1..Len(Offered(c)) : Offered(c)[i].network # SignerNetworkId

SignedFirstMatch(c) ==
    \E i \in 1..Len(Offered(c)) :
        /\ c.signed = Offered(c)[i]
        /\ Offered(c)[i].network = SignerNetworkId
        /\ \A j \in 1..(i - 1) : Offered(c)[j].network # SignerNetworkId

\* C1: buildPaymentHeader is only ever called with the first entry of the
\* challenge's accepts list whose network equals signer.networkId; when the 402
\* response lists no such entry the call returns the initial response having
\* made one request, no call to the signer, the ledger or the circuit breaker,
\* and leaving ledger and breaker as they were.
C1_SignsOnlyFirstMatch ==
    [][\A id \in CallIds :
        LET c == calls'[id]
        IN  /\ Has(c, "buildPaymentHeader") => SignedFirstMatch(c)
            /\ NoEntryMatches(c) =>
                  /\ c.pc = "returned" /\ c.returned = "initial"
                  /\ c.log = <<"fetch">>
                  /\ ledger' = ledger
                  /\ cb' = cb]_vars

\* The signer has been called with the second of three offers, the first
\* being on another network and the third on the signer's as well.
C1_Witness ==
    \E id \in CallIds :
        /\ Has(calls[id], "buildPaymentHeader")
        /\ Len(Offered(calls[id])) = 3
        /\ Offered(calls[id])[1].network # SignerNetworkId
        /\ Offered(calls[id])[3].network = SignerNetworkId
        /\ calls[id].signed = Offered(calls[id])[2]
        /\ calls[id].amount = 500

\* evaluateOutgoing has answered this call with a denial: one of its five
\* checks failed on the selected requirement's amount and recipient.
PolicyDenied(c) ==
    /\ Has(c, "evaluateOutgoing")
    /\ c.returned # "threw"
    /\ \/ StaticDenial(policy.outgoing,
                       [amount |-> c.amount, recipient |-> c.requirement.payTo]) # ""
       \/ /\ Has(c, "getTotal") /\ c.pc # "total"
          /\ c.total + c.amount > policy.outgoing.maxTotal
       \/ /\ Has(c, "getCount") /\ c.pc # "count"
          /\ c.count >= policy.outgoing.maxTransactions

\* This step is the one in which the policy has allowed and
\* circuitBreaker.check(amount) denies.
BreakerDenies(id) ==
    /\ calls[id].pc = "count"
    /\ Has(calls'[id], "check")
    /\ ~check(cb, calls[id].amount, now).allowed

\* C2: when evaluateOutgoing denies, or allows and circuitBreaker.check denies,
\* the call returns the initial response, has made exactly one HTTP request, has
\* not called buildPaymentHeader or storage.recordPayment, and the ledger is as
\* it was.
C2_DenialStopsPayment ==
    [][\A id \in CallIds :
        LET c == calls'[id]
        IN  (PolicyDenied(c) \/ BreakerDenies(id)) =>
                /\ c.pc = "returned" /\ c.returned = "initial"
                /\ Count(c.log, "fetch") = 1
                /\ ~Has(c, "retry")
                /\ ~Has(c, "buildPaymentHeader")
                /\ ~Has(c, "recordPayment")
                /\ ledger' = ledger]_vars

\* A call that the policy allowed, with one earlier payment in its window, and
\* the breaker's check then denied, tripping the breaker.
C2_Witness ==
    \E id \in CallIds :
        /\ calls[id].returned = "initial"
        /\ Has(calls[id], "getCount")
        /\ calls[id].count = 1
        /\ Has(calls[id], "check")
        /\ ~Has(calls[id], "buildPaymentHeader")
        /\ cb.state = "open"
        /\ Len(ledger) = 1

(***************************************************************************)
(* Claims about client and paywall together (checked under SpecE2E)        *)
(***************************************************************************)
\* The amount the server's challenge asks for, as a number.
ChallengeAmount(c) == BigInt(Offered(c)[1].maxAmountRequired)

\* The first client call, made with both ledgers empty, is over, its policy and
\* breaker allowed the amount, and the facilitator verified and settled the
\* proof it sent.
PaidCall(c) ==
    /\ c.seq = 1
    /\ c.pc = "returned"
    /\ Has(c, "check") /\ Has(c, "buildPaymentHeader")
    /\ reqs[Server].pc = "done"
    /\ reqs[Server].verifyResult.valid
    /\ reqs[Server].settleResult.success

TwoExchanges(c) == Count(c.log, "fetch") = 1 /\ Count(c.log, "retry") = 1

OneConfirmed(records, direction, amount) ==
    /\ Len(records) = 1
    /\ records[1].direction = direction
    /\ records[1].status = "confirmed"
    /\ records[1].amount = amount

AllWentWell(c) ==
    /\ reqs[Server].verifyResult.payer \notin {Undefined, ""}
    /\ srvCfg.storage
    /\ Count(reqs[Server].log, "stored") = 1
    /\ c.returned = "retry"
    /\ c.retry.status \in 200..299
    /\ Has(c, "stored")

SameAddress(a, b) == toLowerCase(a) = toLowerCase(b)
OnList(list, address) == \E i \in 1..Len(list) : SameAddress(list[i], address)

\* The outgoing records the ledger aggregates count at time t: pending or
\* confirmed, and created within the last windowMs when a window is given.
CountedOutgoing(windowMs, t) ==
    {i \in 1..Len(ledger) :
        /\ ledger[i].direction = "outgoing"
        /\ ledger[i].status \in {"pending", "confirmed"}
        /\ (windowMs > 0 => ledger[i].createdAt >= t - windowMs)}

RECURSIVE AmountOf(_)
AmountOf(indices) ==
    IF indices = {} THEN 0
    ELSE LET i == CHOOSE j \in indices : TRUE
         IN  ledger[i].amount + AmountOf(indices \ {i})

\* The step is a call of evaluateOutgoing / evaluateIncoming by evaluation id.
CallsEvaluate(id, kind) ==
    /\ evals[id].pc \in {"idle", "done"}
    /\ evals'[id] # evals[id]
    /\ evals'[id].kind = kind

Denied(e, reason) == e.pc = "done" /\ ~e.result.allowed /\ e.result.reason = reason
Allowed(e) == e.pc = "done" /\ e.result.allowed /\ e.result.reason = ""

\* C17: evaluateOutgoing denies with the reason of the first failing check in
\* the order per-transaction limit, block-list, allow-list, window total, window
\* count, the two ledger figures being those the ledger holds when they are
\* read, and allows when none fails.
C17_OutgoingOrder ==
    [][\A id \in EvalIds :
        LET e == evals[id]
            f == evals'[id]
            lim == policy.outgoing
        IN  /\ CallsEvaluate(id, "outgoing") =>
                IF f.request.amount > lim.maxPerTransaction
                THEN Denied(f, DenyPerTransaction)
                ELSE IF OnList(lim.blockedRecipients, f.request.recipient)
                THEN Denied(f, DenyBlocked)
                ELSE IF /\ Len(lim.allowedRecipients) > 0
                        /\ ~OnList(lim.allowedRecipients, f.request.recipient)
                THEN Denied(f, DenyNotAllowed)
                ELSE /\ f.pc = "total"
                     /\ f.total = AmountOf(CountedOutgoing(lim.windowMs, now))
            /\ (e.pc = "total" /\ f # e) =>
                IF e.total + e.request.amount > lim.maxTotal
                THEN Denied(f, DenyTotal)
                ELSE /\ f.pc = "count"
                     /\ f.count = Cardinality(CountedOutgoing(lim.windowMs, now))
            /\ (e.pc = "count" /\ f # e) =>
                IF e.count >= lim.maxTransactions
                THEN Denied(f, DenyCount)
                ELSE Allowed(f)
            /\ (f.kind = "outgoing" /\ f.pc = "done" /\ f.result.allowed) =>
                    (e.pc = "count" \/ f = e)]_vars

\* An amount over the per-transaction limit sent to a blocked recipient that is
\* also missing from the allow-list: denied with the per-transaction reason.
C17_Witness ==
    \E id \in EvalIds :
        /\ evals[id].kind = "outgoing"
        /\ Denied(evals[id], DenyPerTransaction)
        /\ OnList(policy.outgoing.blockedRecipients, evals[id].request.recipient)
        /\ Len(policy.outgoing.allowedRecipients) > 0
        /\ ~OnList(policy.outgoing.allowedRecipients, evals[id].request.recipient)

\* C18: evaluateIncoming denies with the reason of the first failing check in
\* the order minimum amount, block-list, allow-list, allows otherwise, and
\* leaves the ledger as it is.
C18_IncomingOrder ==
    [][\A id \in EvalIds :
        LET f == evals'[id]
            lim == policy.incoming
        IN  CallsEvaluate(id, "incoming") =>
                /\ IF f.request.amount < lim.minPerTransaction
                   THEN Denied(f, DenyBelowMinimum)
                   ELSE IF OnList(lim.blockedSenders, f.request.sender)
                   THEN Denied(f, DenySenderBlocked)
                   ELSE IF /\ Len(lim.allowedSenders) > 0
                           /\ ~OnList(lim.allowedSenders, f.request.sender)
                   THEN Denied(f, DenySenderNotAllowed)
                   ELSE Allowed(f)
                /\ ledger' = ledger]_vars

\* An amount below the minimum from a blocked sender, with one record in the
\* ledger: denied with the minimum reason.
C18_Witness ==
    \E id \in EvalIds :
        /\ evals[id].kind = "incoming"
        /\ Denied(evals[id], DenyBelowMinimum)
        /\ OnList(policy.incoming.blockedSenders, evals[id].request.sender)
        /\ Len(ledger) > 0

Limbs == {"outgoing", "incoming"}

\* C19 (as stated): after updatePolicy(partial) a limb present in partial is
\* exactly the supplied limb, holding none of the previous limb's other
\* fields, and a limb absent from partial is unchanged.
C19_ReplacesLimbWholesale ==
    [][\A partial \in Partials :
        UpdatePolicyCall(partial) =>
            \A limb \in Limbs :
                IF limb \in DOMAIN partial
                THEN policy'[limb] = partial[limb]
                ELSE policy'[limb] = policy[limb]]_vars

\* C19 (amended): after updatePolicy(partial) every field a supplied limb holds
\* has the supplied value, every field it omits keeps its previous value, and a
\* limb absent from partial is unchanged.
C19_MergesSuppliedFields ==
    [][\A partial \in Partials :
        UpdatePolicyCall(partial) =>
            \A limb \in Limbs :
                IF limb \in DOMAIN partial
                THEN /\ DOMAIN policy'[limb] = DOMAIN policy[limb]
                     /\ \A f \in DOMAIN policy[limb] :
                            IF f \in DOMAIN partial[limb]
                            THEN policy'[limb][f] = partial[limb][f]
                            ELSE policy'[limb][f] = policy[limb][f]
                ELSE policy'[limb] = policy[limb]]_vars

\* The per-transaction limit was supplied alone and took effect, while the
\* block-list configured before is still there.
C19_Witness ==
    /\ policy.outgoing.maxPerTransaction = 5
    /\ policy.outgoing.blockedRecipients = <<"0xOTHER">>
    /\ policy.outgoing.maxTotal = DefaultPolicy.outgoing.maxTotal

\* C20: a change the caller makes to the object getPolicy returned leaves the
\* engine's policy as it was.
C20_DefensiveCopy ==
    [][(/\ copy.held
        /\ copy'.held
        /\ copy'.writes = copy.writes + 1
        /\ copy'.value # copy.value) => policy' = policy]_vars


(***************************************************************************)
(* The SET_PAYMENT_POLICY action: the handler, and the engine it drives    *)
(***************************************************************************)
\* utils.usdToBaseUnits for a whole number of dollars.
usdToBaseUnits(usd) == usd * 1000000

Given(params, name) == name \in DOMAIN params
\* !value for a string parameter: absent or empty.
GivenText(params, name) == Given(params, name) /\ params[name] # ""

\* The handler's updates, in its order: the per-payment limit, the daily
\* limit, the block-list, the allow-list.  A limit that is not positive ends
\* the handler there, with the updates made before it kept.
setPaymentPolicy(p, params) ==
    LET hasPer   == Given(params, "maxPerPaymentUsd")
        hasDaily == Given(params, "maxDailyUsd")
        hasBlock == GivenText(params, "blockRecipient")
        hasAllow == GivenText(params, "allowRecipient")
        p1 == IF hasPer
              THEN updatePolicy(p, [outgoing |->
                        [maxPerTransaction |-> usdToBaseUnits(params.maxPerPaymentUsd)]])
              ELSE p
        p2 == IF hasDaily
              THEN updatePolicy(p1, [outgoing |->
                        [maxTotal |-> usdToBaseUnits(params.maxDailyUsd)]])
              ELSE p1
        p3 == IF hasBlock
              THEN updatePolicy(p2, [outgoing |->
                        [blockedRecipients |-> <<params.blockRecipient>>]])
              ELSE p2
        p4 == IF hasAllow
              THEN updatePolicy(p3, [outgoing |->
                        [allowedRecipients |-> <<params.allowRecipient>>]])
              ELSE p3
    IN  IF ~hasPer /\ ~hasDaily /\ ~hasBlock /\ ~hasAllow THEN p
        ELSE IF hasPer /\ params.maxPerPaymentUsd <= 0 THEN p
        ELSE IF hasDaily /\ params.maxDailyUsd <= 0 THEN p1
        ELSE p4

SetPaymentPolicyCall(params) ==
    /\ policy' = setPaymentPolicy(policy, params)
    /\ UNCHANGED <<ledger, copy, evals>>

\* The parameters of the action's calls.
SetPolicyParams ==
    {[blockRecipient |-> "0xPayee"],
     [blockRecipient |-> "0xOther"],
     [allowRecipient |-> "0xPayee"],
     [allowRecipient |-> "0xOther"],
     [blockRecipient |-> "0xPayee", allowRecipient |-> "0xOther"],
     [blockRecipient |-> "", allowRecipient |-> ""],
     [maxPerPaymentUsd |-> 2],
     [maxDailyUsd |-> 5],
     [maxPerPaymentUsd |-> 3, maxDailyUsd |-> 0],
     [maxPerPaymentUsd |-> 0, blockRecipient |-> "0xPayee"]}

SetPolicyInit ==
    /\ now = 0
    /\ cb = NewBreaker
    /\ lastCall = NoCall
    /\ ServerIdle
    /\ policy \in {DefaultPolicy,
                   [DefaultPolicy EXCEPT !.outgoing.blockedRecipients = <<"0xOTHER">>]}
    /\ ledger = <<>>
    /\ calls = [id \in CallIds |-> IdleCall]
    /\ started = 0
    /\ EngineIdle
    /\ StorageIdle
    /\ ObserverIdle

SetPolicyNext ==
    \/ \E params \in SetPolicyParams :
            SetPaymentPolicyCall(params)
                /\ UNCHANGED <<now, breakerVars, serverVars, calls, started, storageVars, observerVars>>
    \/ \E id \in EvalIds, request \in OutgoingRequests :
            EvaluateOutgoingCall(id, request)
                /\ UNCHANGED <<now, breakerVars, serverVars, calls, started, storageVars, observerVars>>
    \/ \E id \in EvalIds :
            EvaluateOutgoingTotal(id)
                /\ UNCHANGED <<now, breakerVars, serverVars, calls, started, storageVars, observerVars>>
    \/ \E id \in EvalIds :
            EvaluateOutgoingCount(id)
                /\ UNCHANGED <<now, breakerVars, serverVars, calls, started, storageVars, observerVars>>

SpecSetPolicy == SetPolicyInit /\ [][SetPolicyNext]_vars

(***************************************************************************)
(* Claims about SET_PAYMENT_POLICY (checked under SpecSetPolicy)           *)
(***************************************************************************)
Recipients == {"0xPayee", "0xOther"}

\* evaluateOutgoing denies every payment to the address under these limits,
\* whatever its amount.
AlwaysDenied(limits, address) ==
    \/ OnList(limits.blockedRecipients, address)
    \/ Len(limits.allowedRecipients) > 0 /\ ~OnList(limits.allowedRecipients, address)

\* C21: a SET_PAYMENT_POLICY action adds to the lists: an address on the
\* block-list before the action is still denied after it, an address on the
\* allow-list before it is still on it, and an action that names only
\* recipients leaves the four other outgoing limits as they were.
C21_ListsGrow ==
    [][\A params \in SetPolicyParams :
        SetPaymentPolicyCall(params) =>
            /\ \A a \in Recipients :
                    OnList(policy.outgoing.blockedRecipients, a)
                        => AlwaysDenied(policy'.outgoing, a)
            /\ \A a \in Recipients :
                    OnList(policy.outgoing.allowedRecipients, a)
                        => OnList(policy'.outgoing.allowedRecipients, a)
            /\ (~Given(params, "maxPerPaymentUsd") /\ ~Given(params, "maxDailyUsd")) =>
                    \A f \in {"maxPerTransaction", "maxTotal", "windowMs", "maxTransactions"} :
                        policy'.outgoing[f] = policy.outgoing[f]]_vars


(***************************************************************************)
(* The memory storage on its own: concurrent writers, reads at any time    *)
(***************************************************************************)
Directions == {"outgoing", "incoming"}

\* What the callers record: every direction and status, two counterparties,
\* two records that share an id.
StorageRecords ==
    {[PaidBefore EXCEPT !.id = <<"x402", 1>>, !.amount = 100],
     [PaidBefore EXCEPT !.id = <<"x402", 2>>, !.amount = 200, !.status = "pending",
                        !.counterparty = "0xOther"],
     [PaidBefore EXCEPT !.id = <<"x402", 3>>, !.amount = 400, !.status = "failed"],
     [PaidBefore EXCEPT !.id = <<"x402", 4>>, !.amount = 800, !.status = "refunded"],
     [PaidBefore EXCEPT !.id = <<"x402", 1>>, !.amount = 1600, !.direction = "incoming",
                        !.counterparty = "0xPayer"]}

StorageInit ==
    /\ now = 0
    /\ cb = NewBreaker
    /\ lastCall = NoCall
    /\ ServerIdle
    /\ policy = DefaultPolicy
    /\ ledger = <<>>
    /\ calls = [id \in CallIds |-> IdleCall]
    /\ started = 0
    /\ EngineIdle
    /\ StorageIdle
    /\ ObserverIdle

StorageNext ==
    \/ Tick
    \/ \E w \in WriterIds, record \in StorageRecords :
            RecordPaymentIssue(w, record)
                /\ UNCHANGED <<now, breakerVars, serverVars, policy, calls, started,
                               engineVars, tables, observerVars>>
    \/ \E w \in WriterIds :
            RecordPaymentResolve(w)
                /\ UNCHANGED <<now, breakerVars, serverVars, policy, calls, started,
                               engineVars, tables, observerVars>>
    \/ ClearCall
            /\ UNCHANGED <<now, breakerVars, serverVars, policy, calls, started,
                           engineVars, tables, observerVars>>

SpecStorage == StorageInit /\ [][StorageNext]_vars

(***************************************************************************)
(* The memory storage and the objects its callers hold                     *)
(***************************************************************************)
\* The filters of the getRecords calls.
FilterArgs ==
    {<<>>,
     [direction |-> "outgoing"],
     [status |-> "confirmed", limit |-> 1],
     [counterparty |-> "0xpayee", offset |-> 1]}

MutatedAmount == 999999

HandlesNext ==
    \/ \E w \in WriterIds, record \in StorageRecords :
            RecordPaymentIssue(w, record)
                /\ UNCHANGED <<now, breakerVars, serverVars, policy, calls, started,
                               engineVars, tables, observerVars>>
    \/ \E w \in WriterIds :
            RecordPaymentResolve(w)
                /\ UNCHANGED <<now, breakerVars, serverVars, policy, calls, started,
                               engineVars, tables, observerVars>>
    \/ ClearCall
            /\ UNCHANGED <<now, breakerVars, serverVars, policy, calls, started,
                           engineVars, tables, observerVars>>
    \/ \E filters \in FilterArgs :
            GetRecordsCall(filters)
                /\ UNCHANGED <<now, breakerVars, serverVars, policy, calls, started,
                               engineVars, tables, observerVars>>
    \/ \E i \in 1..MaxRecords :
            MutateReturned(i, MutatedAmount)
                /\ UNCHANGED <<now, breakerVars, serverVars, policy, calls, started,
                               engineVars, tables, observerVars>>
    \/ MutatePassed(MutatedAmount)
            /\ UNCHANGED <<now, breakerVars, serverVars, policy, calls, started,
                           engineVars, tables, observerVars>>

SpecStorageHandles == StorageInit /\ [][HandlesNext]_vars


(***************************************************************************)
(* Claims about the memory storage (checked under SpecStorage and          *)
(* SpecStorageHandles)                                                     *)
(***************************************************************************)
\* The arguments of the aggregate reads: no window, a window of 0 ms, of a
\* third of a minute, of a minute; no scope or a counterparty.
WindowArgs == {<<>>, <<0>>, <<TickMs>>, <<OneMinuteMs>>}
ScopeArgs == {Undefined, "0xPayee", "0xOther"}

\* The positions of the records an aggregate read is to count.
ToCount(direction, window, scope) ==
    {i \in 1..Len(ledger) :
        /\ ledger[i].direction = direction
        /\ window # <<>> => ledger[i].createdAt >= now - window[1]
        /\ scope # Undefined => ledger[i].counterparty = scope
        /\ ledger[i].status \in {"pending", "confirmed"}}

\* C22: getTotal is the exact sum of the amounts of the records of the
\* direction that are pending or confirmed, were created within the window
\* when one is given and have the counterparty when a scope is given;
\* getCount is the number of such records.
C22_AggregatesExact ==
    \A direction \in Directions, window \in WindowArgs :
        /\ \A scope \in ScopeArgs :
                getTotal(ledger, direction, OrZero(window), scope, now)
                    = AmountOf(ToCount(direction, window, scope))
        /\ getCount(ledger, direction, OrZero(window), now)
                = Cardinality(ToCount(direction, window, Undefined))

\* How often a record occurs in a sequence of records.
Occurrences(records, r) == Cardinality({i \in 1..Len(records) : records[i] = r})

IssuedCounted(direction) ==
    SelectSeq(store.issued,
              LAMBDA r : r.direction = direction /\ r.status \in {"pending", "confirmed"})

\* C23: once every recordPayment call that was issued has completed, getRecords
\* returns the records passed to them, each as often as it was passed, and
\* getCount and getTotal are the number and the sum of those that count.
C23_ConcurrentWrites ==
    (\A w \in WriterIds : store.writers[w] # "pushed") =>
        LET got == getRecords(ledger, <<>>)
        IN  /\ Len(got) = Len(store.issued)
            /\ \A i \in 1..Len(store.issued) :
                    Occurrences(got, store.issued[i])
                        = Occurrences(store.issued, store.issued[i])
            /\ \A direction \in Directions :
                    /\ getCount(ledger, direction, OrZero(<<>>), now)
                            = Len(IssuedCounted(direction))
                    /\ getTotal(ledger, direction, OrZero(<<>>), Undefined, now)
                            = SumSeq([i \in 1..Len(IssuedCounted(direction)) |->
                                        IssuedCounted(direction)[i].amount])

\* Two calls were issued by two callers and both have completed.
C23_Witness ==
    /\ \A w \in WriterIds : store.writers[w] = "done"
    /\ Len(store.issued) = 2
    /\ store.issued[1].direction # store.issued[2].direction
    /\ Len(getRecords(ledger, <<>>)) = 2


\* C25: a stored record is never changed after insertion: every step that is
\* not a clear, a caller's write to an object it passed to recordPayment or
\* got from getRecords included, leaves each stored record in its place and as
\* it was.
C25_RecordsNeverChange ==
    [][ledger' # <<>> =>
        /\ Len(ledger') >= Len(ledger)
        /\ \A i \in 1..Len(ledger) : ledger'[i] = ledger[i]]_vars


(***************************************************************************)
(* SqlitePaymentStorage and PostgresPaymentStorage, next to the memory     *)
(* storage: the same calls made to all three                               *)
(***************************************************************************)
\* A record as a row: the amount is stored as its decimal text.
recordToRow(record) == [record EXCEPT !.amount = BigIntToString(record.amount)]
rowToRecord(row) == [row EXCEPT !.amount = BigInt(row.amount)]

\* INSERT violates PRIMARY KEY(id): the statement throws and nothing is stored.
HasId(rows, id) == \E i \in 1..Len(rows) : rows[i].id = id
sqlInsert(rows, record) ==
    IF HasId(rows, record.id) THEN rows ELSE Append(rows, recordToRow(record))

\* WHERE direction = ? AND status NOT IN ('failed', 'refunded'), and
\* created_at >= cutoff when windowMs !== undefined.
sqlCounted(row, direction, window, t) ==
    /\ row.direction = direction
    /\ row.status \notin {"failed", "refunded"}
    /\ window # <<>> => row.createdAt >= t - window[1]

RECURSIVE sqlGetTotal(_, _, _, _, _)
sqlGetTotal(rows, direction, window, scope, t) ==
    IF rows = <<>> THEN 0
    ELSE (IF /\ sqlCounted(Head(rows), direction, window, t)
             /\ (Truthy(scope) => Head(rows).counterparty = scope)
          THEN BigInt(Head(rows).amount) ELSE 0)
         + sqlGetTotal(Tail(rows), direction, window, scope, t)

sqlGetCount(rows, direction, window, t) ==
    Cardinality({i \in 1..Len(rows) : sqlCounted(rows[i], direction, window, t)})

\* ORDER BY created_at DESC: any order of the selected rows that has no row
\* before a newer one; rows of one creation time come in an order the database
\* chooses.
Orderings(rows, selected) ==
    {s \in [1..Cardinality(selected) -> selected] :
        /\ \A i, j \in 1..Cardinality(selected) : i # j => s[i] # s[j]
        /\ \A i, j \in 1..Cardinality(selected) :
                i < j => rows[s[i]].createdAt >= rows[s[j]].createdAt}

\* getRecords of a SQL storage: whether the statement throws, and otherwise
\* the arrays it may return.  SQLite has no OFFSET without LIMIT.
sqlGetRecords(dialect, rows, filters) ==
    LET selected == {i \in 1..Len(rows) : Matches(rowToRecord(rows[i]), filters)}
        offset   == IF "offset" \in DOMAIN filters THEN filters.offset ELSE 0
        limit    == IF "limit" \in DOMAIN filters THEN filters.limit
                    ELSE Cardinality(selected)
        threw    == /\ dialect = "sqlite"
                    /\ "offset" \in DOMAIN filters
                    /\ "limit" \notin DOMAIN filters
    IN  [threw   |-> threw,
         results |-> IF threw THEN {}
                     ELSE {[k \in 1..Len(Slice(s, offset, limit)) |->
                                rowToRecord(rows[Slice(s, offset, limit)[k]])] :
                            s \in Orderings(rows, selected)}]

\* recordPayment with the same record on the three storages.
BackendsRecordPayment(record) ==
    /\ Len(ledger) < MaxRecords
    /\ LET r == [record EXCEPT !.createdAt = now]
       IN  /\ ledger' = memoryRecordPayment(ledger, r)
           /\ tables' = [sqlite   |-> sqlInsert(tables.sqlite, r),
                         postgres |-> sqlInsert(tables.postgres, r),
                         threw    |-> [memory   |-> FALSE,
                                       sqlite   |-> HasId(tables.sqlite, r.id),
                                       postgres |-> HasId(tables.postgres, r.id)]]
    /\ UNCHANGED store

\* clear on the three storages.
BackendsClear ==
    /\ ledger' = <<>>
    /\ tables' = NoTables
    /\ UNCHANGED store

BackendsNext ==
    \/ Tick
    \/ \E record \in StorageRecords :
            BackendsRecordPayment(record)
                /\ UNCHANGED <<now, breakerVars, serverVars, policy, calls, started,
                               engineVars, observerVars>>
    \/ BackendsClear
            /\ UNCHANGED <<now, breakerVars, serverVars, policy, calls, started,
                           engineVars, observerVars>>

SpecBackends == StorageInit /\ [][BackendsNext]_vars

(***************************************************************************)
(* Claims about the three storages (checked under SpecBackends)            *)
(***************************************************************************)
Dialects == {"sqlite", "postgres"}

\* The filters of the getRecords calls, one of them an offset without a limit.
BackendFilters == FilterArgs \cup {[offset |-> 1], [limit |-> 1, offset |-> 1]}

\* C24: after the same calls the three storages answer every read alike and
\* threw on the same writes.
C24_BackendsAgree ==
    /\ \A dialect \in Dialects : tables.threw[dialect] = tables.threw.memory
    /\ \A dialect \in Dialects, direction \in Directions, window \in WindowArgs :
            /\ \A scope \in ScopeArgs :
                    sqlGetTotal(tables[dialect], direction, window, scope, now)
                        = getTotal(ledger, direction, OrZero(window), scope, now)
            /\ sqlGetCount(tables[dialect], direction, window, now)
                    = getCount(ledger, direction, OrZero(window), now)
    /\ \A dialect \in Dialects, filters \in BackendFilters :
            /\ ~sqlGetRecords(dialect, tables[dialect], filters).threw
            /\ sqlGetRecords(dialect, tables[dialect], filters).results
                    = {getRecords(ledger, filters)}


(***************************************************************************)
(* Claims about the facilitator client (checked under SpecPaywall)         *)
(***************************************************************************)
FailureKinds == {"reject", "status", "badjson"}

C27_SingleShot ==
    \A id \in DOMAIN reqs :
        LET r == reqs[id] IN
        /\ Count(r.log, "verify") <= 1
        /\ Count(r.log, "settle") <= 1
        /\ Count(r.log, "POST /verify") <= Count(r.log, "verify")
        /\ Count(r.log, "POST /settle") <= Count(r.log, "settle")
        /\ (r.pc # "idle" /\ ~ProofDecodes(getHeader(r.headers, "x-payment"))) =>
                /\ Count(r.log, "POST /verify") = 0
                /\ Count(r.log, "POST /settle") = 0
        /\ Count(r.log, "settle") > 0 =>
                /\ r.verifyResult.valid
                /\ Count(r.log, "POST /verify") = 1
                /\ Before(r.log, "POST /verify", "settle")
        /\ Before(r.log, "settle", "POST /settle")

\* The settle POST failed after a valid verification, and was not sent again.
C27_Witness ==
    \E id \in DOMAIN reqs :
        /\ reqs[id].pc = "done"
        /\ reqs[id].verifyResult.valid
        /\ reqs[id].settleResult.reason = ReasonFailed
        /\ Count(reqs[id].log, "POST /verify") = 1
        /\ Count(reqs[id].log, "POST /settle") = 1


(***************************************************************************)
(* Claims about the client's steps (checked under SpecClient)              *)
(***************************************************************************)
\* The ledger records call c wrote.
WrittenBy(c) == {i \in 1..Len(ledger) : ledger[i].id = <<"x402", c.seq>>}

\* C28: an initial response whose status is not 402 is returned as it is after
\* one request, with no policy evaluation, no breaker call or change, no
\* signing and no ledger write.
C28_PassThrough ==
    [][\A id \in CallIds, response \in InitialResponses :
        (/\ ClientInitialResponse(id, response)
         /\ response # Rejected
         /\ response.status # 402) =>
            /\ calls'[id].pc = "returned"
            /\ calls'[id].returned = "initial"
            /\ calls'[id].initial = response
            /\ calls'[id].log = <<"fetch">>
            /\ cb' = cb
            /\ lastCall' = lastCall
            /\ ledger' = ledger
            /\ policy' = policy]_vars

\* A 401 that carries a well-formed challenge came straight back.
C28_Witness ==
    \E id \in CallIds :
        /\ calls[id].pc = "returned"
        /\ calls[id].returned = "initial"
        /\ calls[id].initial.status = 401
        /\ parsePaymentRequired(calls[id].initial) # NoChallenge
        /\ calls[id].log = <<"fetch">>

\* The step ends call id in one of the two catch blocks that follow the
\* breaker's permission: signing threw, or the retry request was rejected.
SigningThrew(id) ==
    calls[id].pc = "sign" /\ calls'[id].pc = "returned"
RetryRejected(id) ==
    calls[id].pc = "retry" /\ calls'[id].pc = "returned"

\* C29: when signing throws, in which case no retry is sent, or the retry
\* request rejects, recordFailure is called exactly once (it re-opens a
\* half-open breaker and leaves any other as it is), no ledger record is
\* appended and the initial 402 response is returned.
C29_FailureAfterAllow ==
    [][\A id \in CallIds :
        (SigningThrew(id) \/ RetryRejected(id)) =>
            /\ calls'[id].returned = "initial"
            /\ calls'[id].initial.status = 402
            /\ calls'[id].log = Append(calls[id].log, "recordFailure")
            /\ Count(calls'[id].log, "recordFailure") = 1
            /\ Count(calls'[id].log, "recordSuccess") = 0
            /\ Count(calls'[id].log, "recordPayment") = 0
            /\ SigningThrew(id) => Count(calls'[id].log, "retry") = 0
            /\ ledger' = ledger
            /\ IF cb.state = "half-open"
               THEN cb'.state = "open" /\ cb'.trippedAt = now
               ELSE cb' = cb]_vars

\* Signing threw on the probe payment of a half-open breaker, which is open
\* again; nothing was recorded.
C29_Witness ==
    \E id \in CallIds :
        /\ calls[id].returned = "initial"
        /\ Has(calls[id], "buildPaymentHeader")
        /\ ~Has(calls[id], "retry")
        /\ Count(calls[id].log, "recordFailure") = 1
        /\ cb.state = "open"
        /\ cb.lastTripReason = ReasonProbe
        /\ WrittenBy(calls[id]) = {}

\* The session id of a retry response.
SessionOf(response) ==
    LET Named(name) == {h \in response.headers : toLowerCase(h.name) = name}
    IN  IF Named("x-upto-session-id") # {}
        THEN (CHOOSE h \in Named("x-upto-session-id") : TRUE).value.chars
        ELSE IF Named("x-payment-response") # {}
        THEN (CHOOSE h \in Named("x-payment-response") : TRUE).value.chars
        ELSE ""

\* The step on which the call that received a retry response finishes.
AfterRetryResponse(id) == calls[id].pc = "record" /\ calls'[id].pc = "returned"

\* The record the call builds from the retry response.
RecordOfRetry(c) ==
    /\ Len(ledger') = Len(ledger) + 1
    /\ SubSeq(ledger', 1, Len(ledger)) = ledger
    /\ LET r == ledger'[Len(ledger')]
       IN  /\ r.direction = "outgoing"
           /\ r.amount = BigInt(c.requirement.maxAmountRequired)
           /\ r.counterparty = c.requirement.payTo
           /\ r.txHash = SessionOf(c.retry)
           /\ r.status = IF c.retry.status \in 200..299 THEN "confirmed" ELSE "failed"

\* Exactly one of the two breaker calls, chosen by the retry response.
BreakerUpdated(id) ==
    LET c == calls[id]
        ok == c.retry.status \in 200..299
    IN  /\ Count(calls'[id].log, "recordSuccess") = (IF ok THEN 1 ELSE 0)
        /\ Count(calls'[id].log, "recordFailure") = (IF ok THEN 0 ELSE 1)
        /\ cb' = IF ok THEN recordSuccess(cb, c.amount, now) ELSE recordFailure(cb, now)

\* C30 (as stated): whenever a retry response is received exactly one outgoing
\* record is appended, built from the selected requirement and the session id,
\* confirmed with recordSuccess(amount) when the response is ok and failed with
\* recordFailure() otherwise.
C30_AlwaysOneRecord ==
    [][\A id \in CallIds :
        AfterRetryResponse(id) =>
            /\ RecordOfRetry(calls[id])
            /\ BreakerUpdated(id)]_vars

\* C30 (amended): whenever a retry response is received storage.recordPayment
\* is called exactly once with that record, which is appended unless the write
\* is rejected, and in both cases exactly one of the two breaker calls follows.
C30_OneRecordUnlessRejected ==
    [][\A id \in CallIds :
        AfterRetryResponse(id) =>
            /\ Count(calls'[id].log, "recordPayment") = 1
            /\ IF Has(calls'[id], "stored")
               THEN RecordOfRetry(calls[id])
               ELSE ledger' = ledger /\ Has(calls'[id], "rejected")
            /\ BreakerUpdated(id)]_vars

\* A retry answered 200 with the legacy header only: the record is confirmed
\* and carries that session id, and the breaker saw the success.
C30_Witness ==
    \E id \in CallIds :
        /\ calls[id].returned = "retry"
        /\ calls[id].retry.status = 200
        /\ Has(calls[id], "stored")
        /\ Has(calls[id], "recordSuccess")
        /\ \E i \in WrittenBy(calls[id]) :
                ledger[i].txHash = "0xLegacy" /\ ledger[i].status = "confirmed"


\* C31: once a retry response has been received it is the response the call
\* returns, whatever its status; a rejected ledger write changes neither that
\* nor the breaker update that follows it.
C31_RetryResponseReturned ==
    [][\A id \in CallIds :
        /\ \A response \in RetryResponses :
              (ClientRetryReturn(id, response) /\ response # Rejected) =>
                    calls'[id].retry = response
        /\ AfterRetryResponse(id) =>
              /\ calls'[id].returned = "retry"
              /\ calls'[id].retry = calls[id].retry
              /\ BreakerUpdated(id)
        /\ \A stored \in BOOLEAN :
              (calls[id].pc = "record" /\ ClientRecordReturn(id, stored)) =>
                    /\ calls'[id].returned = "retry"
                    /\ cb' = BreakerUpdate(calls[id], cb, TRUE, now)]_vars

\* The write was rejected after a retry answered 500: that response came back
\* and the breaker, half-open for this probe payment, is open again.
C31_Witness ==
    \E id \in CallIds :
        /\ calls[id].pc = "returned"
        /\ calls[id].returned = "retry"
        /\ calls[id].retry.status = 500
        /\ Has(calls[id], "rejected")
        /\ Has(calls[id], "recordFailure")
        /\ cb.state = "open"
        /\ cb.lastTripReason = ReasonProbe


\* C32: a call whose initial response was a 402 resolves with a response: no
\* exception escapes it, whatever the challenge decodes to and whichever of
\* the ledger reads, signing or the retry fails.
C32_NoExceptionEscapes ==
    \A id \in CallIds :
        calls[id].initial.status = 402 => calls[id].returned # "threw"


(***************************************************************************)
(* The network registry's two functions, called with any string            *)
(***************************************************************************)
\* Object.entries(NETWORK_REGISTRY): the keys in the order they are written.
RegistryOrder == <<"base", "base-sepolia", "ethereum", "sepolia">>

\* The names NETWORK_REGISTRY[key] finds on Object.prototype when the object
\* has no such key of its own; each holds a function or an object.
ObjectPrototypeNames ==
    {"constructor", "hasOwnProperty", "isPrototypeOf", "propertyIsEnumerable",
     "toLocaleString", "toString", "valueOf", "__proto__"}

NoInfo == [caip2 |-> "undefined", chainId |-> 0,
           usdcAddress |-> "undefined", usdcDomainName |-> "undefined"]

\* NETWORK_REGISTRY[key]: an entry, an inherited member, or undefined.
RegistryMember(key) ==
    IF key \in NetworkKeys THEN "entry"
    ELSE IF key \in ObjectPrototypeNames THEN "inherited"
    ELSE "undefined"

\* resolveNetwork throws when the member is falsy; an inherited member, which
\* has none of an entry's fields, is returned as it is.
resolveNetworkOutcome(key) ==
    [fn    |-> "resolveNetwork",
     arg   |-> key,
     threw |-> RegistryMember(key) = "undefined",
     key   |-> "undefined",
     info  |-> IF RegistryMember(key) = "entry" THEN resolveNetwork(key) ELSE NoInfo]

\* networkKeyFromCaip2: the first key in entry order whose caip2 is the one given.
FirstKeyIn(order, caip2) ==
    LET found == {i \in 1..Len(order) : resolveNetwork(order[i]).caip2 = caip2}
    IN  IF found = {} THEN "undefined"
        ELSE order[CHOOSE i \in found : \A j \in found : i <= j]
networkKeyFromCaip2(caip2) == FirstKeyIn(RegistryOrder, caip2)

networkKeyFromCaip2Outcome(caip2) ==
    [fn |-> "networkKeyFromCaip2", arg |-> caip2, threw |-> FALSE,
     key |-> networkKeyFromCaip2(caip2), info |-> NoInfo]

ResolveNetworkCall(key) ==
    /\ lookup' = [lookup EXCEPT !.resolve = resolveNetworkOutcome(key)]
    /\ UNCHANGED <<now, breakerVars, serverVars, clientVars, engineVars, storageVars, trace>>

NetworkKeyFromCaip2Call(caip2) ==
    /\ lookup' = [lookup EXCEPT !.reverse = networkKeyFromCaip2Outcome(caip2)]
    /\ UNCHANGED <<now, breakerVars, serverVars, clientVars, engineVars, storageVars, trace>>

\* The strings the two functions are called with: every key and id of the
\* registry, the ones the tests use, near misses and inherited names.
KeyArgs ==
    NetworkKeys \cup ObjectPrototypeNames
        \cup {"unknown-chain", "polygon", "", "Base", "base ", "eip155:8453"}
Caip2Args ==
    {resolveNetwork(k).caip2 : k \in NetworkKeys}
        \cup {"eip155:137", "", "invalid", "EIP155:8453", "8453", "base", "constructor"}

RegistryInit ==
    /\ now = 0
    /\ cb = NewBreaker
    /\ lastCall = NoCall
    /\ ServerIdle
    /\ ClientIdle
    /\ EngineIdle
    /\ StorageIdle
    /\ trace = <<>>
    /\ lookup = [resolve |-> NoLookup, reverse |-> NoLookup]

RegistryNext ==
    \/ \E key \in KeyArgs : ResolveNetworkCall(key)
    \/ \E caip2 \in Caip2Args : NetworkKeyFromCaip2Call(caip2)

SpecRegistry == RegistryInit /\ [][RegistryNext]_vars

\* C33: no two registry entries share a CAIP-2 id or a chain id, so the key
\* found for an entry's CAIP-2 id is that entry's key; resolveNetwork throws
\* for every key the registry does not hold, and networkKeyFromCaip2 returns
\* undefined for every id no entry has.
C33_RegistryLookups ==
    /\ \A k1, k2 \in NetworkKeys :
            k1 # k2 => /\ resolveNetwork(k1).caip2 # resolveNetwork(k2).caip2
                       /\ resolveNetwork(k1).chainId # resolveNetwork(k2).chainId
    /\ \A k \in NetworkKeys : networkKeyFromCaip2(resolveNetwork(k).caip2) = k
    /\ lookup.resolve.fn = "resolveNetwork" =>
            IF lookup.resolve.arg \in NetworkKeys
            THEN /\ ~lookup.resolve.threw
                 /\ lookup.resolve.info = resolveNetwork(lookup.resolve.arg)
            ELSE lookup.resolve.threw
    /\ lookup.reverse.fn = "networkKeyFromCaip2" =>
            /\ ~lookup.reverse.threw
            /\ IF \E k \in NetworkKeys : resolveNetwork(k).caip2 = lookup.reverse.arg
               THEN resolveNetwork(lookup.reverse.key).caip2 = lookup.reverse.arg
               ELSE lookup.reverse.key = "undefined"


\* The place of an event in the order of a call's steps.
StepRank(event) ==
    CASE event = "fetch"              -> 1
      [] event = "evaluateOutgoing"   -> 2
      [] event = "getTotal"           -> 3
      [] event = "getCount"           -> 4
      [] event = "check"              -> 5
      [] event = "buildPaymentHeader" -> 6
      [] event = "retry"              -> 7
      [] event = "recordPayment"      -> 8
      [] event \in {"stored", "rejected"} -> 9
      [] event \in {"recordSuccess", "recordFailure"} -> 10

\* C34: within one call the steps occur in the order initial request, policy
\* evaluation, breaker check, signing, retry request, ledger append, breaker
\* update, one at a time; the request is sent at most twice; a record is
\* appended only by a call that has received a retry response, so a call that
\* ended earlier has left none.
C34_StepsInOrder ==
    /\ [](\A id \in CallIds :
            LET c == calls[id]
            IN  c.pc # "idle" =>
                  /\ \A i, j \in 1..Len(c.log) :
                        i < j => StepRank(c.log[i]) < StepRank(c.log[j])
                  /\ Count(c.log, "fetch") = 1
                  /\ Count(c.log, "fetch") + Count(c.log, "retry") <= 2
                  /\ Has(c, "check") => Has(c, "getCount")
                  /\ Has(c, "getCount") => Has(c, "getTotal")
                  /\ Has(c, "buildPaymentHeader") => Has(c, "check")
                  /\ Has(c, "retry") => Has(c, "buildPaymentHeader")
                  /\ Has(c, "recordPayment") => Has(c, "retry") /\ c.retry # Rejected
                  /\ Has(c, "recordSuccess") => Has(c, "recordPayment")
                  /\ Cardinality(WrittenBy(c)) = (IF Has(c, "stored") THEN 1 ELSE 0)
                  /\ Has(c, "stored") => Has(c, "recordPayment"))
    /\ [][ledger' # ledger =>
            \E id \in CallIds :
                /\ calls[id].pc = "record"
                /\ calls[id].retry # Rejected
                /\ ledger' = Append(ledger, OutgoingRecord(calls[id], calls[id].retry))]_vars

\* A call went through every step, in order.
C34_Witness ==
    \E id \in CallIds :
        /\ calls[id].pc = "returned"
        /\ calls[id].log = <<"fetch", "evaluateOutgoing", "getTotal", "getCount", "check",
                             "buildPaymentHeader", "retry", "recordPayment", "stored",
                             "recordSuccess">>
        /\ WrittenBy(calls[id]) # {}


\* The challenge header names in the order of their priority, and the value
\* of the first of them the response has.
ChallengeNames == <<"payment-required", "x-402", "x-payment-required">>
Named(response, name) == {h \in response.headers : toLowerCase(h.name) = name}
HasNoChallengeHeader(response) ==
    \A i \in 1..Len(ChallengeNames) : Named(response, ChallengeNames[i]) = {}
HighestPriorityValue(response) ==
    LET first == CHOOSE i \in 1..Len(ChallengeNames) :
                    /\ Named(response, ChallengeNames[i]) # {}
                    /\ \A j \in 1..(i - 1) : Named(response, ChallengeNames[j]) = {}
    IN  (CHOOSE h \in Named(response, ChallengeNames[first]) : TRUE).value
DecodesAsBase64Json(value) == value.enc = "base64" /\ value.of.enc = "json"
DecodesAsRawJson(value) == value.enc = "json"
DecodedValue(value) == IF DecodesAsBase64Json(value) THEN value.of.val ELSE value.val

\* The 402 response carries no challenge a payment could be made for.
NothingToPay(response) ==
    \/ HasNoChallengeHeader(response)
    \/ LET value == HighestPriorityValue(response)
       IN  \/ ~DecodesAsBase64Json(value) /\ ~DecodesAsRawJson(value)
           \/ AcceptsKind(DecodedValue(value)) = "missing"
           \/ AcceptsKind(DecodedValue(value)) = "list" /\ DecodedValue(value).accepts = <<>>

\* C35: a 402 response with none of the three challenge headers, or whose
\* highest-priority challenge header decodes neither as base64 JSON nor as raw
\* JSON, or whose challenge has a missing or empty accepts list, is returned
\* with no policy evaluation, breaker call, signing, retry or ledger write.
C35_NothingToPay ==
    [][\A id \in CallIds, response \in InitialResponses :
        (/\ ClientInitialResponse(id, response)
         /\ response.status = 402
         /\ NothingToPay(response)) =>
            /\ calls'[id].pc = "returned"
            /\ calls'[id].returned = "initial"
            /\ calls'[id].initial = response
            /\ calls'[id].log = <<"fetch">>
            /\ cb' = cb
            /\ ledger' = ledger
            /\ policy' = policy]_vars

\* A 402 came back whose first challenge header is empty although a later
\* alias carries a well-formed challenge.
C35_Witness ==
    \E id \in CallIds :
        /\ calls[id].pc = "returned"
        /\ calls[id].returned = "initial"
        /\ calls[id].initial.status = 402
        /\ ~HasNoChallengeHeader(calls[id].initial)
        /\ HighestPriorityValue(calls[id].initial) = EmptyString
        /\ Named(calls[id].initial, "x-402") # {}
        /\ calls[id].log = <<"fetch">>


(***************************************************************************)
(* Concurrent fetchWithPayment calls that share one CircuitBreaker, one    *)
(* PolicyEngine and one ledger.  Each call runs the steps of the client    *)
(* above; the steps of different calls interleave at every await.  trace   *)
(* lists the payments signed and the recordSuccess calls completed.        *)
(***************************************************************************)
Fetchers == 1..MaxFetchers

Signed(c, t) == [op |-> "sign", amount |-> c.amount, at |-> t]
Succeeded(c, t) == [op |-> "recordSuccess", amount |-> c.amount, at |-> t]

SharedStart(id) ==
    /\ calls[id].pc \in {"idle", "returned"}
    /\ started < MaxSharedCalls
    /\ started' = started + 1
    /\ calls' = [calls EXCEPT ![id] =
            [IdleCall EXCEPT !.pc = "initial", !.seq = started + 1, !.log = <<"fetch">>]]
    /\ UNCHANGED <<policy, ledger, cb, trace>>

\* The evaluation allowed the payment, the breaker is asked, signing begins.
SharedCountReturn(id) ==
    /\ ClientCountReturn(id, TRUE)
    /\ trace' = IF calls'[id].pc = "sign" THEN Append(trace, Signed(calls[id], now))
                ELSE trace

\* The write settles and the breaker hears of the outcome.
SharedRecordReturn(id, stored) ==
    /\ ClientRecordReturn(id, stored)
    /\ trace' = IF Ok(calls[id].retry) THEN Append(trace, Succeeded(calls[id], now))
                ELSE trace

\* The breaker is reset by hand while calls are in flight.
SharedReset ==
    /\ cb.state # "closed"
    /\ cb' = reset(cb)
    /\ UNCHANGED <<policy, ledger, calls, started, trace>>

\* Challenges for 50000 and for 500 base units, both to 0xPayee.
SharedInitialResponses ==
    { Response(402, {Header("Payment-Required", Encoded(OneOffer))}),
      Response(402, {Header("Payment-Required", Encoded(ManyOffers))}) }
SharedRetryResponses == {Response(204, {}), Response(500, {})}

\* The policy of the tests, and one under which a single payment is allowed
\* and a second is not.
SharedPolicies ==
    {DefaultPolicy,
     [DefaultPolicy EXCEPT !.outgoing.maxTotal = 50000, !.outgoing.maxTransactions = 1]}

SharedInit ==
    /\ now = 0
    /\ cb = NewBreaker
    /\ lastCall = NoCall
    /\ ServerIdle
    /\ policy \in SharedPolicies
    /\ ledger = <<>>
    /\ calls = [id \in Fetchers |-> IdleCall]
    /\ started = 0
    /\ EngineIdle
    /\ StorageIdle
    /\ ObserverIdle

\* The calls are made within one reading of the clock.
SharedNext ==
    \/ \E id \in Fetchers :
            SharedStart(id)
                /\ UNCHANGED <<now, lastCall, serverVars, engineVars, storageVars, lookup>>
    \/ \E id \in Fetchers, response \in SharedInitialResponses :
            ClientInitialResponse(id, response)
                /\ UNCHANGED <<now, lastCall, serverVars, engineVars, storageVars, observerVars>>
    \/ \E id \in Fetchers :
            ClientTotalReturn(id, TRUE)
                /\ UNCHANGED <<now, lastCall, serverVars, engineVars, storageVars, observerVars>>
    \/ \E id \in Fetchers :
            SharedCountReturn(id)
                /\ UNCHANGED <<now, lastCall, serverVars, engineVars, storageVars, lookup>>
    \/ \E id \in Fetchers, signedOk \in BOOLEAN :
            ClientSignReturn(id, signedOk)
                /\ UNCHANGED <<now, lastCall, serverVars, engineVars, storageVars, observerVars>>
    \/ \E id \in Fetchers, response \in SharedRetryResponses :
            ClientRetryReturn(id, response)
                /\ UNCHANGED <<now, lastCall, serverVars, engineVars, storageVars, observerVars>>
    \/ \E id \in Fetchers :
            SharedRecordReturn(id, TRUE)
                /\ UNCHANGED <<now, lastCall, serverVars, engineVars, storageVars, lookup>>
    \/ SharedReset
            /\ UNCHANGED <<now, lastCall, serverVars, engineVars, storageVars, lookup>>

SpecShared == SharedInit /\ [][SharedNext]_vars


(***************************************************************************)
(* Claims about calls that share a breaker, a policy engine and a ledger   *)
(* (checked under SpecShared)                                              *)
(***************************************************************************)
\* The amounts of the recordSuccess calls completed so far, in that order.
RECURSIVE AmountsOf(_, _)
AmountsOf(events, op) ==
    IF events = <<>> THEN <<>>
    ELSE IF Head(events).op = op
    THEN <<Head(events).amount>> \o AmountsOf(Tail(events), op)
    ELSE AmountsOf(Tail(events), op)
LastOf(s, n) == SubSeq(s, Len(s) - n + 1, Len(s))
Smaller(a, b) == IF a < b THEN a ELSE b

\* C36: however the calls that share the breaker interleave, its amount window
\* holds the last min(n, recentWindowSize) amounts of the n recordSuccess
\* calls completed, in the order they completed; no other step (check,
\* recordFailure, reset) adds, removes or reorders an amount.
C36_WindowIsLastSuccesses ==
    /\ [](LET amounts == AmountsOf(trace, "recordSuccess")
          IN  cb.recentAmounts = LastOf(amounts, Smaller(Len(amounts), CfgRecentWindowSize)))
    /\ [][cb'.recentAmounts # cb.recentAmounts =>
            /\ Len(trace') = Len(trace) + 1
            /\ trace'[Len(trace')].op = "recordSuccess"
            /\ \E id \in Fetchers : calls[id].pc = "record" /\ calls'[id].pc = "returned"]_vars

\* More payments succeeded than the window holds, of different amounts: the
\* oldest amount has left the window.
C36_Witness ==
    /\ Len(AmountsOf(trace, "recordSuccess")) > CfgRecentWindowSize
    /\ Len(cb.recentAmounts) = CfgRecentWindowSize
    /\ \E i, j \in 1..Len(cb.recentAmounts) : cb.recentAmounts[i] # cb.recentAmounts[j]
    /\ cb.recentAmounts # SubSeq(AmountsOf(trace, "recordSuccess"), 1, CfgRecentWindowSize)


\* A record satisfies every filter that is given.
Satisfies(r, filters) ==
    /\ "direction" \in DOMAIN filters => r.direction = filters.direction
    /\ "status" \in DOMAIN filters => r.status = filters.status
    /\ "network" \in DOMAIN filters => r.network = filters.network
    /\ "since" \in DOMAIN filters => r.createdAt >= filters.since
    /\ "until" \in DOMAIN filters => r.createdAt <= filters.until
    /\ "counterparty" \in DOMAIN filters
            => toLowerCase(r.counterparty) = toLowerCase(filters.counterparty)

\* The arrays the claim allows getRecords to return: the satisfying records,
\* newest first, from position offset on and limit of them at most.
Page(records, filters) ==
    LET chosen == {i \in 1..Len(records) : Satisfies(records[i], filters)}
        offset == IF "offset" \in DOMAIN filters THEN filters.offset ELSE 0
        limit  == IF "limit" \in DOMAIN filters THEN filters.limit ELSE Cardinality(chosen)
        last(s) == IF offset + limit < Len(s) THEN offset + limit ELSE Len(s)
    IN  {[k \in 1..(IF last(s) > offset THEN last(s) - offset ELSE 0) |->
                records[s[offset + k]]] :
            s \in {t \in [1..Cardinality(chosen) -> chosen] :
                    /\ \A i, j \in DOMAIN t : i # j => t[i] # t[j]
                    /\ \A i, j \in DOMAIN t :
                            i < j => records[t[i]].createdAt >= records[t[j]].createdAt}}

\* The filters of the getRecords calls: each filter alone and some together.
PageFilters ==
    BackendFilters \cup
        {[status |-> "pending", counterparty |-> "0XOTHER"],
         [network |-> PaidBefore.network, since |-> TickMs],
         [until |-> TickMs, limit |-> 0],
         [direction |-> "incoming", since |-> TickMs, until |-> TickMs],
         [limit |-> 5, offset |-> 0]}

RowsAsRecords(rows) == [i \in 1..Len(rows) |-> rowToRecord(rows[i])]

\* C37: getRecords(filters), of the memory storage and of the SQLite storage,
\* returns exactly the records that satisfy every given filter, newest first,
\* restricted to positions offset to offset + limit - 1 of that order.
C37_FilteredNewestFirstPage ==
    \A filters \in PageFilters :
        /\ getRecords(ledger, filters) \in Page(ledger, filters)
        /\ ~sqlGetRecords("sqlite", tables.sqlite, filters).threw
        /\ sqlGetRecords("sqlite", tables.sqlite, filters).results
                \subseteq Page(RowsAsRecords(tables.sqlite), filters)
        /\ sqlGetRecords("sqlite", tables.sqlite, filters).results # {}


\* C38: however the calls that share the policy engine and the ledger
\* interleave, the non-failed outgoing records created within the policy
\* window never sum to more than maxTotal and never number more than
\* maxTransactions.
C38_LimitsHoldAcrossCalls ==
    LET counted == CountedOutgoing(policy.outgoing.windowMs, now)
    IN  /\ AmountOf(counted) <= policy.outgoing.maxTotal
        /\ Cardinality(counted) <= policy.outgoing.maxTransactions

\* The times at which the payments signed so far passed the breaker's check.
SignedAt == {i \in 1..Len(trace) : trace[i].op = "sign"}

\* C39: however the calls that share the breaker follow one another or
\* interleave, no more than maxPaymentsPerMinute payments pass check and are
\* signed within any span of 60 seconds, whether they later succeed or fail.
C39_SignedPerMinute ==
    \A i \in SignedAt :
        Cardinality({j \in SignedAt : /\ trace[j].at >= trace[i].at
                                      /\ trace[j].at - trace[i].at < OneMinuteMs})
            <= CfgMaxPaymentsPerMinute


(***************************************************************************)
(* The breaker's trip reason (checked under SpecBreaker)                   *)
(***************************************************************************)
\* C40: after any sequence of check, recordSuccess, recordFailure and reset
\* calls the trip reason is the empty string exactly when the state is closed.
C40_ReasonEmptyIffClosed ==
    (cb.lastTripReason = "") <=> (cb.state = "closed")

\* A check let a probe payment through: the breaker is half-open and still
\* holds the reason of the trip.
C40_Witness ==
    /\ lastCall.op = "check"
    /\ lastCall.pre = "open"
    /\ lastCall.allowed
    /\ cb.state = "half-open"
    /\ cb.lastTripReason = ReasonRate

====
